---- MODULE Spec2Model ----
(***************************************************************************)
(* Bitcoin transaction signing orchestrator of the BitBox02 firmware       *)
(* (src/rust/bitbox02-rust/src/hww/api/bitcoin/signtx.rs).                 *)
(*                                                                         *)
(* The orchestrator is a coroutine: it runs synchronously from one await   *)
(* to the next.  The awaits are the host round-trip (hww::next_request in  *)
(* get_request) and the two status toasts.  Every action below is one such *)
(* run: it resumes the coroutine where it is suspended (pc), feeds it what *)
(* the environment delivers (the host's reply, the results of the native   *)
(* helpers called on the way) and executes the code up to the next await   *)
(* or up to the return of process.                                         *)
(*                                                                         *)
(* SHA-256 is modelled symbolically (collision free): Sha256(m) is the     *)
(* record [sha256 |-> m].  Signatures and signer commitments returned by   *)
(* the native helpers are symbolic records naming the helper, the input    *)
(* index and the message they were computed from.                          *)
(***************************************************************************)
EXTENDS Integers, Sequences, FiniteSets, TLC

\* ------------------------------------------------------------------ bounds
\* Largest num_inputs / num_outputs of an init request.
MaxInputs == 3
MaxOutputs == 2
\* Largest num_inputs / num_outputs a host declares in a PrevtxInit whose
\* transaction it streams in full, and the most outputs of one previous
\* transaction it streams.
MaxPrevInputs == 2
MaxPrevOutputs == 2
\* The u32 operands of the arithmetic are drawn within this distance of 0 and
\* of u32::MAX.
MaxSample == 2

\* ------------------------------------------------- protobuf enum NextType
NextType_Input == 0
NextType_Output == 1
NextType_Done == 2
NextType_PrevtxInit == 3
NextType_PrevtxInput == 4
NextType_PrevtxOutput == 5
NextType_HostNonce == 6

\* Option<T>: None is the empty sequence, Some(x) the sequence <<x>>.
None == <<>>
Some(x) == <<x>>

\* --------------------------------------------------------- byte encodings
\* n little-endian bytes of x: u32::to_le_bytes (n = 4), u64::to_le_bytes (n = 8).
RECURSIVE to_le_bytes(_, _)
to_le_bytes(x, n) ==
    IF n = 0 THEN <<>> ELSE <<x % 256>> \o to_le_bytes(x \div 256, n - 1)

\* The value of little-endian bytes (for values below 2^31).
RECURSIVE from_le_bytes(_)
from_le_bytes(b) ==
    IF b = <<>> THEN 0 ELSE b[1] + 256 * from_le_bytes(Tail(b))

\* `x as u64` of a u32 held as its four bytes, and of a length.
U64(b) == b \o <<0, 0, 0, 0>>
U64Of(n) == to_le_bytes(n, 8)

\* Bitcoin variable length integer (1/3/5/9 bytes) of a u64 held as its eight
\* little-endian bytes.
serialize_varint(value) ==
    LET fits(n) == \A i \in (n + 1)..8 : value[i] = 0
    IN  IF fits(1) /\ value[1] < 253 THEN <<value[1]>>
        ELSE IF fits(2) THEN <<253>> \o SubSeq(value, 1, 2)
        ELSE IF fits(4) THEN <<254>> \o SubSeq(value, 1, 4)
        ELSE <<255>> \o value

\* ------------------------------------------------------------ u32 arithmetic
\* Where the whole range 0 .. 2^32 - 1 matters a u32 is held as its four
\* little-endian bytes.
U32(n) == to_le_bytes(n, 4)
U32_MAX == <<255, 255, 255, 255>>

\* a + b + carry over byte strings of one length; the last byte of the result
\* is the carry out.
RECURSIVE AddBytes(_, _, _)
AddBytes(a, b, carry) ==
    IF a = <<>> THEN <<carry>>
    ELSE LET sum == a[1] + b[1] + carry
         IN  <<sum % 256>> \o AddBytes(Tail(a), Tail(b), sum \div 256)

\* a - b - borrow; the last byte of the result is the borrow out.
RECURSIVE SubBytes(_, _, _)
SubBytes(a, b, borrow) ==
    IF a = <<>> THEN <<borrow>>
    ELSE LET diff == a[1] - b[1] - borrow
         IN  <<(diff + 256) % 256>>
             \o SubBytes(Tail(a), Tail(b), IF diff < 0 THEN 1 ELSE 0)

\* a < b for byte strings of one length.
RECURSIVE LessBytes(_, _)
LessBytes(a, b) ==
    IF a = <<>> THEN FALSE
    ELSE LET n == Len(a)
         IN  IF a[n] # b[n] THEN a[n] < b[n]
             ELSE LessBytes(SubSeq(a, 1, n - 1), SubSeq(b, 1, n - 1))

\* The u32 operators `+` and `-`: the value modulo 2^32 and whether the exact
\* result is outside u32 (a panic where overflow checks are compiled in).
overflowing_add(a, b) ==
    LET r == AddBytes(a, b, 0)
    IN  [value |-> SubSeq(r, 1, 4), overflow |-> r[5] # 0]
overflowing_sub(a, b) ==
    LET r == SubBytes(a, b, 0)
    IN  [value |-> SubSeq(r, 1, 4), overflow |-> r[5] # 0]

\* The u32 values the arithmetic is evaluated on.
U32Samples ==
    {U32(n) : n \in 0..MaxSample}
        \cup {overflowing_sub(U32_MAX, U32(n)).value : n \in 0..MaxSample}

\* The f32 value (whole + num / den) * (1 / steps) of a progress_set call, kept
\* by the u32 operands it is computed from.  A den of 0 is the f32 division
\* by zero (NaN or infinity).
Fraction(whole, num, den, steps) ==
    [whole |-> whole, num |-> num, den |-> den, steps |-> steps]

\* Pass 1, `(input_index as f32) / (request.num_inputs as f32)`.
pass1_progress(index, num_inputs) ==
    [overflow |-> FALSE,
     value |-> Some(Fraction(U32(0), index, num_inputs, U32(1)))]

\* `let last = index == count - 1` of the three loops of _process.
is_last(index, count) ==
    LET r == overflowing_sub(count, U32(1))
    IN  [overflow |-> r.overflow, value |-> None]

\* handle_prevtx before previous input k is requested.
prevtx_input_progress(index, num_inputs, prevtx_num_inputs, prevtx_num_outputs, k) ==
    LET total == overflowing_add(prevtx_num_inputs, prevtx_num_outputs)
    IN  [overflow |-> total.overflow,
         value |-> Some(Fraction(index, k, total.value, num_inputs))]

\* handle_prevtx before previous output k is requested.
prevtx_output_progress(index, num_inputs, prevtx_num_inputs, prevtx_num_outputs, k) ==
    LET streamed_so_far == overflowing_add(prevtx_num_inputs, k)
        total == overflowing_add(prevtx_num_inputs, prevtx_num_outputs)
    IN  [overflow |-> streamed_so_far.overflow \/ total.overflow,
         value |-> Some(Fraction(index, streamed_so_far.value, total.value,
                                 num_inputs))]

\* Pass 2, `(input_index + 1) as f32 / (request.num_inputs as f32)`.
pass2_progress(index, num_inputs) ==
    LET done == overflowing_add(index, U32(1))
    IN  [overflow |-> done.overflow,
         value |-> Some(Fraction(U32(0), done.value, num_inputs, U32(1)))]

\* Sha256 of a byte string (or of a digest), symbolic.
Sha256(m) == [sha256 |-> m]

\* ---------------------------------------------------- host message domains
\* The previous-transaction input the host streams (its content only flows
\* into the hasher).
PrevTxInputA ==
    [prev_out_hash |-> <<170, 187>>, prev_out_index |-> 258,
     signature_script |-> <<81, 82>>, sequence |-> 65534]
PrevTxInputMsgs == {PrevTxInputA}

Amounts == {1000, 2000}
PrevTxOutputMsgs == [value : Amounts, pubkey_script : {<<118, 169>>}]

\* BtcPrevTxInitRequest: the counts are u32 the host chooses; beside the small
\* ones, a pair that passes the `< 1` check of handle_prevtx and whose sum is
\* 2^32.
OverflowingPrevTxInit ==
    [version |-> 2, num_inputs |-> U32(1), num_outputs |-> U32_MAX,
     locktime |-> 513]
PrevTxInitMsgs ==
    [version : {2}, num_inputs : {U32(n) : n \in 0..MaxPrevInputs},
     num_outputs : {U32(n) : n \in 0..MaxPrevOutputs}, locktime : {513}]
        \cup {OverflowingPrevTxInit}

\* Reference serialization of a whole previous transaction (spec section 6):
\* version_LE32 || varint(n_in) || inputs || varint(n_out) || outputs || locktime_LE32.
RECURSIVE SerializeInputs(_)
SerializeInputs(ins) ==
    IF ins = <<>> THEN <<>>
    ELSE Head(ins).prev_out_hash
         \o to_le_bytes(Head(ins).prev_out_index, 4)
         \o serialize_varint(U64Of(Len(Head(ins).signature_script)))
         \o Head(ins).signature_script
         \o to_le_bytes(Head(ins).sequence, 4)
         \o SerializeInputs(Tail(ins))

RECURSIVE SerializeOutputs(_)
SerializeOutputs(outs) ==
    IF outs = <<>> THEN <<>>
    ELSE to_le_bytes(Head(outs).value, 8)
         \o serialize_varint(U64Of(Len(Head(outs).pubkey_script)))
         \o Head(outs).pubkey_script
         \o SerializeOutputs(Tail(outs))

SerializeTx(tx) ==
    to_le_bytes(tx.init.version, 4)
    \o serialize_varint(U64Of(Len(tx.inputs))) \o SerializeInputs(tx.inputs)
    \o serialize_varint(U64Of(Len(tx.outputs))) \o SerializeOutputs(tx.outputs)
    \o to_le_bytes(tx.init.locktime, 4)

Txid(tx) == Sha256(Sha256(SerializeTx(tx)))

\* Two transactions whose ids the host may name as prev_out_hash, and an id
\* that belongs to no transaction the host can stream.
KnownTxA ==
    [init |-> [version |-> 2, num_inputs |-> U32(1), num_outputs |-> U32(1),
               locktime |-> 513],
     inputs |-> <<PrevTxInputA>>,
     outputs |-> <<[value |-> 1000, pubkey_script |-> <<118, 169>>]>>]
KnownTxB ==
    [init |-> [version |-> 2, num_inputs |-> U32(2), num_outputs |-> U32(2),
               locktime |-> 513],
     inputs |-> <<PrevTxInputA, PrevTxInputA>>,
     outputs |-> <<[value |-> 1000, pubkey_script |-> <<118, 169>>],
                   [value |-> 2000, pubkey_script |-> <<118, 169>>]>>]
BogusHash == Sha256(Sha256(<<>>))
PrevOutHashes == {Txid(KnownTxA), Txid(KnownTxB), BogusHash}

\* BtcSignInputRequest: the fields the orchestrator reads; the rest of the
\* record (keypath, sequence, script_config_index) is only seen by the native
\* helpers, whose verdict is an input of the actions.
HostNonceCommitment == [commitment |-> <<7>>]
SignInputMsgs ==
    [prev_out_hash : PrevOutHashes,
     prev_out_index : {0, 1},
     prev_out_value : Amounts,
     host_nonce_commitment : {None, Some(HostNonceCommitment)}]

SignOutputMsgs == [value : {1000}]
AntikleptoMsgs == [host_nonce : {<<9>>}]
NoMsg == [none : {TRUE}]

Variants ==
    {"BtcSignInit", "BtcSignInput", "BtcSignOutput", "PrevtxInit", "PrevtxInput",
     "PrevtxOutput", "AntikleptoSignature"}

MsgsOf(variant) ==
    CASE variant = "BtcSignInput" -> SignInputMsgs
      [] variant = "BtcSignOutput" -> SignOutputMsgs
      [] variant = "PrevtxInit" -> PrevTxInitMsgs
      [] variant = "PrevtxInput" -> PrevTxInputMsgs
      [] variant = "PrevtxOutput" -> PrevTxOutputMsgs
      [] variant = "AntikleptoSignature" -> AntikleptoMsgs
      [] OTHER -> NoMsg

\* What hww::next_request can return while `demanded` is awaited: a transport
\* error, the demanded variant with any content, or another variant.
Replies(demanded) ==
    {[kind |-> "Err", variant |-> "none", msg |-> [none |-> TRUE]]}
    \cup {[kind |-> "Ok", variant |-> demanded, msg |-> m] : m \in MsgsOf(demanded)}
    \cup {[kind |-> "Ok", variant |-> v, msg |-> [none |-> TRUE]] :
            v \in Variants \ {demanded}}

\* Results of the native helpers (bitbox02::app_btc).
NativeResults == {"Ok", "InvalidInput"}
SignOutputResults == {"Ok", "InvalidInput", "UserAbort"}

\* ------------------------------------------------------------ init request
InitRequests ==
    {r \in [version : {1, 2, 3}, num_inputs : 0..MaxInputs,
            num_outputs : 0..MaxOutputs, locktime : {0, 500000000}] :
        (r.version # 1 \/ r.locktime # 0) => (r.num_inputs = 1 /\ r.num_outputs = 1)}

\* app_btc::sign_init: the validation the native helper performs on the fields
\* modelled here; requests it accepts may still be rejected for their coin or
\* script configs.
sign_init_accepts(request) ==
    /\ request.version \in {1, 2}
    /\ request.locktime < 500000000
    /\ request.num_inputs >= 1
    /\ request.num_outputs >= 1

SignInitResults(request) ==
    IF sign_init_accepts(request) THEN {"Ok", "InvalidInput"} ELSE {"InvalidInput"}

\* ------------------------------------------------------------------- state
VARIABLES
    pc,                  \* where the coroutine is suspended
    keystore_locked,     \* bitbox02::keystore::is_locked()
    request,             \* the BtcSignInitRequest process was called with
    next_response,       \* NextResponse {next, wrap}
    input_index,         \* loop counters of _process and handle_prevtx
    output_index,
    prevtx_input_index,
    prevtx_output_index,
    tx_input,            \* Option: the BtcSignInputRequest in scope
    prevtx_init,         \* Option: the BtcPrevTxInitRequest in scope
    hasher,              \* bytes fed to the Sha256 hasher of handle_prevtx
    progress_component,  \* Option: [title, progress]
    empty_component,     \* Option: the placeholder component
    screen_stack,        \* the UI screen stack (what this session pushed)
    result,              \* what process returns: [status, response]
    \* observations of the session's environment
    last_request,        \* Option: variant of the request next_request returned last
    next_after_request,  \* Option: next_response.next as get_request left it
                         \* when it returned a request last
    pass2_input,         \* Option: the Input record the host sent in the pass-2
                         \* round-trip of the last step
    fault,               \* first misbehaviour of host, user or native helper
    streamed,            \* the previous transaction streamed so far
    pass1_value,         \* prev_out_value given to sign_input_pass1, per input so far
    prevtx_verified,     \* inputs for which handle_prevtx returned Ok
    txid_matched,        \* inputs whose streamed transaction has id prev_out_hash
    prevtx_audit,        \* Option: verdict on the transaction streamed in full
                         \* by the last step
    exchanged,           \* a response was handed to hww::next_request
    screen_pushes,       \* number of screen_stack_push calls
    native_calls,        \* calls of bitbox02::app_btc helpers, in order
    signatures_delivered,\* input index of each signature put in a response
    commitments_delivered,\* input index of each anti-klepto signer commitment
                         \* put in a response
    call_screens,        \* the screen stack at each call in native_calls
    value_audit,         \* Option: verdict on the output the input spends, when
                         \* the last step received it
    toasts,              \* status::status screens shown, in order
    trips,               \* Option: in a session whose round trips are counted,
                         \* the round trips completed minus those the host's
                         \* messages account for
    previous_result,     \* Option: the status the previous call of process
                         \* returned, known until this call has run its first step
    overflow_checks,     \* Option: whether overflow checks are compiled in
                         \* (a u32 overflow panics) or not (it wraps); not
                         \* known before an addition has overflowed
    panic_strategy,      \* Option: what a panic does on this build, "abort"
                         \* (the firmware halts as it is) or "unwind" (the
                         \* locals are dropped on the way out); not known
                         \* before a panic
    arith                \* Option: operands and result of one evaluation of the
                         \* u32 and progress arithmetic (ArithSpec)

\* The variables of a session.
session ==
    <<pc, keystore_locked, request, next_response, input_index, output_index,
      prevtx_input_index, prevtx_output_index, tx_input, prevtx_init, hasher,
      progress_component, empty_component, screen_stack, result,
      last_request, next_after_request, pass2_input, fault, streamed,
      pass1_value, prevtx_verified, txid_matched,
      prevtx_audit, exchanged, screen_pushes, native_calls,
      signatures_delivered, commitments_delivered, call_screens, value_audit,
      toasts, trips, previous_result, overflow_checks, panic_strategy>>

vars == <<session, arith>>

State ==
    [pc |-> pc, keystore_locked |-> keystore_locked, request |-> request,
     next_response |-> next_response, input_index |-> input_index,
     output_index |-> output_index, prevtx_input_index |-> prevtx_input_index,
     prevtx_output_index |-> prevtx_output_index, tx_input |-> tx_input,
     prevtx_init |-> prevtx_init, hasher |-> hasher,
     progress_component |-> progress_component,
     empty_component |-> empty_component, screen_stack |-> screen_stack,
     result |-> result, last_request |-> last_request,
     next_after_request |-> next_after_request, pass2_input |-> pass2_input,
     fault |-> fault, streamed |-> streamed, pass1_value |-> pass1_value,
     prevtx_verified |-> prevtx_verified, txid_matched |-> txid_matched,
     prevtx_audit |-> prevtx_audit, exchanged |-> exchanged,
     screen_pushes |-> screen_pushes, native_calls |-> native_calls,
     signatures_delivered |-> signatures_delivered,
     commitments_delivered |-> commitments_delivered,
     call_screens |-> call_screens, value_audit |-> value_audit,
     toasts |-> toasts, trips |-> trips, overflow_checks |-> overflow_checks,
     panic_strategy |-> panic_strategy]

SetSession(t) ==
    /\ pc' = t.pc
    /\ keystore_locked' = t.keystore_locked
    /\ request' = t.request
    /\ next_response' = t.next_response
    /\ input_index' = t.input_index
    /\ output_index' = t.output_index
    /\ prevtx_input_index' = t.prevtx_input_index
    /\ prevtx_output_index' = t.prevtx_output_index
    /\ tx_input' = t.tx_input
    /\ prevtx_init' = t.prevtx_init
    /\ hasher' = t.hasher
    /\ progress_component' = t.progress_component
    /\ empty_component' = t.empty_component
    /\ screen_stack' = t.screen_stack
    /\ result' = t.result
    /\ last_request' = t.last_request
    /\ next_after_request' = t.next_after_request
    /\ pass2_input' = t.pass2_input
    /\ fault' = t.fault
    /\ streamed' = t.streamed
    /\ pass1_value' = t.pass1_value
    /\ prevtx_verified' = t.prevtx_verified
    /\ txid_matched' = t.txid_matched
    /\ prevtx_audit' = t.prevtx_audit
    /\ exchanged' = t.exchanged
    /\ screen_pushes' = t.screen_pushes
    /\ native_calls' = t.native_calls
    /\ signatures_delivered' = t.signatures_delivered
    /\ commitments_delivered' = t.commitments_delivered
    /\ call_screens' = t.call_screens
    /\ value_audit' = t.value_audit
    /\ toasts' = t.toasts
    /\ trips' = t.trips
    /\ overflow_checks' = t.overflow_checks
    /\ panic_strategy' = t.panic_strategy

SetState(t) ==
    /\ SetSession(t)
    /\ previous_result' = IF pc = "start" THEN previous_result ELSE None
    /\ arith' = arith

\* pb::BtcSignNextResponse with the values _process and get_request reset it to.
DefaultNext ==
    [type |-> 0, index |-> 0, has_signature |-> FALSE, signature |-> <<>>,
     prev_index |-> 0, anti_klepto_signer_commitment |-> None]

NoStream == [init |-> None, inputs |-> <<>>, outputs |-> <<>>]
Running == [status |-> "running", response |-> None]

\* The state at the entry of process.
Entry ==
    /\ pc = "start"
    /\ next_response = [next |-> DefaultNext, wrap |-> FALSE]
    /\ input_index = 0
    /\ output_index = 0
    /\ prevtx_input_index = 0
    /\ prevtx_output_index = 0
    /\ tx_input = None
    /\ prevtx_init = None
    /\ hasher = <<>>
    /\ progress_component = None
    /\ empty_component = None
    /\ screen_stack = <<>>
    /\ result = Running
    /\ last_request = None
    /\ next_after_request = None
    /\ pass2_input = None
    /\ fault = "none"
    /\ streamed = NoStream
    /\ pass1_value = <<>>
    /\ prevtx_verified = {}
    /\ txid_matched = {}
    /\ prevtx_audit = None
    /\ exchanged = FALSE
    /\ screen_pushes = 0
    /\ native_calls = <<>>
    /\ signatures_delivered = <<>>
    /\ commitments_delivered = <<>>
    /\ call_screens = <<>>
    /\ value_audit = None
    /\ toasts = <<>>

Init ==
    /\ keystore_locked \in BOOLEAN
    /\ request \in InitRequests
    /\ Entry
    /\ trips = None
    /\ previous_result = None
    /\ overflow_checks = None
    /\ panic_strategy = None
    /\ arith = None

\* ------------------------------------------------------------ UI primitives
\* ui::progress_create / ui::empty_create followed by screen_stack_push.
progress_create(title) == [title |-> title, progress |-> None]
screen_stack_push(stack, name) == Append(stack, name)
\* Dropping a component handle pops its screen; dropping None does nothing.
drop(stack, component) ==
    IF component = None THEN stack ELSE SubSeq(stack, 1, Len(stack) - 1)
\* ui::progress_set with the f32 value `progress`.
progress_set(component, progress) ==
    IF component = None THEN component
    ELSE Some([component[1] EXCEPT !.progress = Some(progress)])

\* An overflowing u32 operation where overflow checks are compiled in: the
\* firmware panics, process never returns and sign_reset is not called.  A
\* build that aborts on panic halts with everything as it is; a build that
\* unwinds drops the locals of handle_prevtx and _process on the way out (the
\* hasher, the records in scope, the response, the UI components, whose
\* screens are popped).
panic(s) ==
    IF s.panic_strategy = Some("unwind")
    THEN [s EXCEPT
            !.pc = "panicked",
            !.screen_stack = drop(drop(@, s.progress_component), s.empty_component),
            !.progress_component = None,
            !.empty_component = None,
            !.next_response = [next |-> DefaultNext, wrap |-> FALSE],
            !.input_index = 0,
            !.output_index = 0,
            !.prevtx_input_index = 0,
            !.prevtx_output_index = 0,
            !.tx_input = None,
            !.prevtx_init = None,
            !.hasher = <<>>,
            !.pass1_value = <<>>]
    ELSE [s EXCEPT !.pc = "panicked"]

\* ----------------------------------------------------------- NextResponse
to_protobuf(response) ==
    IF response.wrap
    THEN [envelope |-> "Btc.SignNext", next |-> response.next]
    ELSE [envelope |-> "BtcSignNext", next |-> response.next]

SignatureIndex(next) ==
    IF next.signature = <<>> THEN -1 ELSE next.signature[1].index

\* A response leaves the device (through next_request or as the value process
\* returns): note whose signature it carries.
Delivered(s, next) ==
    IF next.has_signature
    THEN Append(s.signatures_delivered, SignatureIndex(next))
    ELSE s.signatures_delivered

DeliveredCommitment(s, next) ==
    IF next.anti_klepto_signer_commitment # None
    THEN Append(s.commitments_delivered,
                next.anti_klepto_signer_commitment[1].commitment.index)
    ELSE s.commitments_delivered

\* Mutant of process: sign_reset only when _process succeeded.
process_reset_on_success_only(s, status, response) ==
    [s EXCEPT
        !.pc = IF status = "UserAbort" THEN "status_canceled" ELSE "done",
        !.result = [status |-> status, response |-> response],
        !.screen_stack = drop(drop(@, s.progress_component), s.empty_component),
        !.progress_component = None,
        !.empty_component = None,
        !.next_response = [next |-> DefaultNext, wrap |-> FALSE],
        !.input_index = 0,
        !.output_index = 0,
        !.prevtx_input_index = 0,
        !.prevtx_output_index = 0,
        !.tx_input = None,
        !.prevtx_init = None,
        !.hasher = <<>>,
        !.pass1_value = <<>>,
        !.native_calls = IF status = "Ok"
                         THEN Append(@, [fn |-> "sign_reset", index |-> 0,
                                         last |-> FALSE, result |-> "Ok"])
                         ELSE @,
        !.call_screens =
            IF status = "Ok"
            THEN Append(@, drop(drop(s.screen_stack, s.progress_component),
                                s.empty_component))
            ELSE @,
        !.signatures_delivered =
            IF response = None THEN @ ELSE Delivered(s, response[1].next),
        !.commitments_delivered =
            IF response = None THEN @ ELSE DeliveredCommitment(s, response[1].next),
        !.toasts = IF status = "UserAbort"
                   THEN Append(@, [text |-> "Transaction\ncanceled", success |-> FALSE])
                   ELSE @]

\* Mutant of process: the cancel toast is also shown for InvalidInput.
process_toast_on_invalid_input(s, status, response) ==
    [s EXCEPT
        !.pc = IF status \in {"UserAbort", "InvalidInput"}
               THEN "status_canceled" ELSE "done",
        !.result = [status |-> status, response |-> response],
        !.screen_stack = drop(drop(@, s.progress_component), s.empty_component),
        !.progress_component = None,
        !.empty_component = None,
        !.next_response = [next |-> DefaultNext, wrap |-> FALSE],
        !.input_index = 0,
        !.output_index = 0,
        !.prevtx_input_index = 0,
        !.prevtx_output_index = 0,
        !.tx_input = None,
        !.prevtx_init = None,
        !.hasher = <<>>,
        !.pass1_value = <<>>,
        !.native_calls = Append(@, [fn |-> "sign_reset", index |-> 0,
                                    last |-> FALSE, result |-> "Ok"]),
        !.call_screens =
            Append(@, drop(drop(s.screen_stack, s.progress_component),
                           s.empty_component)),
        !.signatures_delivered =
            IF response = None THEN @ ELSE Delivered(s, response[1].next),
        !.commitments_delivered =
            IF response = None THEN @ ELSE DeliveredCommitment(s, response[1].next),
        !.toasts = IF status \in {"UserAbort", "InvalidInput"}
                   THEN Append(@, [text |-> "Transaction\ncanceled", success |-> FALSE])
                   ELSE @]

\* ---------------------------------------------------------------- process
\* The end of a session: _process returns `status` (its locals, the UI
\* components among them, are dropped), then process calls sign_reset and, on
\* UserAbort, shows the cancel toast before it returns.
process(s, status, response) ==
    [s EXCEPT
        !.pc = IF status = "UserAbort" THEN "status_canceled" ELSE "done",
        !.result = [status |-> status, response |-> response],
        !.screen_stack = drop(drop(@, s.progress_component), s.empty_component),
        !.progress_component = None,
        !.empty_component = None,
        !.next_response = [next |-> DefaultNext, wrap |-> FALSE],
        !.input_index = 0,
        !.output_index = 0,
        !.prevtx_input_index = 0,
        !.prevtx_output_index = 0,
        !.tx_input = None,
        !.prevtx_init = None,
        !.hasher = <<>>,
        !.pass1_value = <<>>,
        !.native_calls = Append(@, [fn |-> "sign_reset", index |-> 0,
                                    last |-> FALSE, result |-> "Ok"]),
        !.call_screens =
            Append(@, drop(drop(s.screen_stack, s.progress_component),
                           s.empty_component)),
        !.signatures_delivered =
            IF response = None THEN @ ELSE Delivered(s, response[1].next),
        !.commitments_delivered =
            IF response = None THEN @ ELSE DeliveredCommitment(s, response[1].next),
        !.toasts = IF status = "UserAbort"
                   THEN Append(@, [text |-> "Transaction\ncanceled", success |-> FALSE])
                   ELSE @]

Err(s, e) == process(s, e, None)

\* ------------------------------------------------------------ get_request
\* get_request up to its await: compose the hint and hand it to next_request.
get_request_send(typ, index, prev_index, label, s) ==
    LET next == [s.next_response.next EXCEPT
                    !.type = typ,
                    !.index = index,
                    !.prev_index = IF prev_index = None THEN @ ELSE prev_index[1]]
        response == [s.next_response EXCEPT !.next = next]
    IN  [s EXCEPT !.next_response = response,
                  !.signatures_delivered = Delivered(s, next),
                  !.commitments_delivered = DeliveredCommitment(s, next),
                  !.exchanged = TRUE,
                  !.pc = label]

\* Mutant of get_request: the response is not reset after the round-trip.
get_request_no_reset(reply, s) ==
    IF reply.kind = "Err"
    THEN [err |-> Some("TransportError"), s |-> s, request |-> reply.msg]
    ELSE [err |-> None,
          s |-> [s EXCEPT !.last_request = Some(reply.variant),
                          !.next_after_request = Some(s.next_response.next)],
          request |-> reply.msg]

\* Mutant of get_request: a transport error is reported as InvalidState.
get_request_masks_transport_error(reply, s) ==
    IF reply.kind = "Err"
    THEN [err |-> Some("InvalidState"), s |-> s, request |-> reply.msg]
    ELSE [err |-> None,
          s |-> [s EXCEPT !.next_response.next = DefaultNext,
                          !.last_request = Some(reply.variant),
                          !.next_after_request = Some(DefaultNext)],
          request |-> reply.msg]

\* Mutant of get_request: the signature is not reset.
get_request_keeps_signature(reply, s) ==
    IF reply.kind = "Err"
    THEN [err |-> Some("TransportError"), s |-> s, request |-> reply.msg]
    ELSE LET next == [DefaultNext EXCEPT
                        !.has_signature = s.next_response.next.has_signature,
                        !.signature = s.next_response.next.signature]
         IN  [err |-> None,
              s |-> [s EXCEPT !.next_response.next = next,
                              !.last_request = Some(reply.variant),
                              !.next_after_request = Some(next)],
              request |-> reply.msg]

\* Mutant of get_request: the anti-klepto commitment is not reset.
get_request_keeps_commitment(reply, s) ==
    IF reply.kind = "Err"
    THEN [err |-> Some("TransportError"), s |-> s, request |-> reply.msg]
    ELSE LET next == [DefaultNext EXCEPT !.anti_klepto_signer_commitment =
                        s.next_response.next.anti_klepto_signer_commitment]
         IN  [err |-> None,
              s |-> [s EXCEPT !.next_response.next = next,
                              !.last_request = Some(reply.variant),
                              !.next_after_request = Some(next)],
              request |-> reply.msg]

\* get_request after its await: a transport error is propagated, otherwise
\* the response is reset to its defaults and the request returned.
get_request(reply, s) ==
    IF reply.kind = "Err"
    THEN [err |-> Some("TransportError"), s |-> s, request |-> reply.msg]
    ELSE [err |-> None,
          s |-> [s EXCEPT !.next_response.next = DefaultNext,
                          !.last_request = Some(reply.variant),
                          !.next_after_request = Some(DefaultNext)],
          request |-> reply.msg]

\* The typed accessors after the await of get_request: set wrap, then match
\* the variant.
Accessor(reply, s, wrap, variant) ==
    LET r == get_request(reply, s)
    IN  IF r.err # None THEN r
        ELSE LET s1 == [r.s EXCEPT !.next_response.wrap = wrap]
             IN  IF reply.variant = variant
                 THEN [err |-> None, s |-> s1, request |-> reply.msg]
                 ELSE [err |-> Some("InvalidState"), s |-> s1, request |-> reply.msg]

\* Mutant of get_antiklepto_host_nonce: a mismatched variant is reported as
\* InvalidInput.
get_antiklepto_host_nonce_wrong_error(reply, s) ==
    LET r == Accessor(reply, s, TRUE, "AntikleptoSignature")
    IN  IF r.err = Some("InvalidState") THEN [r EXCEPT !.err = Some("InvalidInput")]
        ELSE r

\* Mutant of get_prevtx_output: the response is not marked as wrapped.
get_prevtx_output_unwrapped(reply, s) == Accessor(reply, s, FALSE, "PrevtxOutput")

get_tx_input(reply, s) == Accessor(reply, s, FALSE, "BtcSignInput")
get_prevtx_init(reply, s) == Accessor(reply, s, TRUE, "PrevtxInit")
get_prevtx_input(reply, s) == Accessor(reply, s, TRUE, "PrevtxInput")
get_prevtx_output(reply, s) == Accessor(reply, s, TRUE, "PrevtxOutput")
get_tx_output(reply, s) == Accessor(reply, s, FALSE, "BtcSignOutput")
get_antiklepto_host_nonce(reply, s) == Accessor(reply, s, TRUE, "AntikleptoSignature")

NativeCall(s, fn, index, last, res) ==
    [s EXCEPT !.native_calls =
        Append(@, [fn |-> fn, index |-> index, last |-> last, result |-> res]),
              !.call_screens = Append(@, s.screen_stack)]

\* ------------------------------------------------ loop heads of _process
\* Mutant of process_inputs_pass2: the Done response is built from a fresh
\* response instead of the one holding the last signature.
process_inputs_pass2_done_reset(s) ==
    IF s.input_index < s.request.num_inputs
    THEN get_request_send(NextType_Input, s.input_index, None, "input_pass2", s)
    ELSE LET done == [s.next_response EXCEPT
                        !.next = [DefaultNext EXCEPT !.type = NextType_Done]]
         IN  process(s, "Ok", Some(to_protobuf(done)))

\* Pass 2: `for input_index in 0..num_inputs` up to the await of get_tx_input;
\* after the loop the Done response is returned.
process_inputs_pass2(s) ==
    IF s.input_index < s.request.num_inputs
    THEN get_request_send(NextType_Input, s.input_index, None, "input_pass2", s)
    ELSE LET done == [s.next_response EXCEPT !.next.type = NextType_Done]
         IN  process(s, "Ok", Some(to_protobuf(done)))

\* Mutant of process_outputs: the loop stops one output early.
process_outputs_skip_last(s) ==
    IF s.output_index < s.request.num_outputs - 1
    THEN get_request_send(NextType_Output, s.output_index, None, "output", s)
    ELSE [s EXCEPT !.pc = "status_confirmed",
                   !.toasts = Append(@, [text |-> "Transaction\nconfirmed",
                                         success |-> TRUE])]

\* Mutant of process_outputs: the "Transaction confirmed" toast is not shown.
process_outputs_no_toast(s) ==
    IF s.output_index < s.request.num_outputs
    THEN get_request_send(NextType_Output, s.output_index, None, "output", s)
    ELSE [s EXCEPT !.pc = "status_confirmed"]

\* Outputs: `for output_index in 0..num_outputs` up to the await of
\* get_tx_output; after the loop the "Transaction confirmed" toast is awaited.
process_outputs(s) ==
    IF s.output_index < s.request.num_outputs
    THEN get_request_send(NextType_Output, s.output_index, None, "output", s)
    ELSE [s EXCEPT !.pc = "status_confirmed",
                   !.toasts = Append(@, [text |-> "Transaction\nconfirmed",
                                         success |-> TRUE])]

\* Pass 1: `for input_index in 0..num_inputs` up to the await of get_tx_input;
\* after the loop the progress is set to 100% and the outputs begin.
process_inputs_pass1(s) ==
    IF s.input_index < s.request.num_inputs
    THEN get_request_send(NextType_Input, s.input_index, None, "input_pass1",
            [s EXCEPT !.progress_component =
                progress_set(@, pass1_progress(U32(s.input_index),
                                    U32(s.request.num_inputs)).value[1])])
    ELSE process_outputs(
            [s EXCEPT !.progress_component =
                            progress_set(@, Fraction(U32(1), U32(0), U32(1), U32(1))),
                      !.output_index = 0])

\* ---------------------------------------------------------- handle_prevtx
\* Mutant of handle_prevtx_finish: the hash is computed but not compared.
handle_prevtx_finish_unchecked(s) ==
    process_inputs_pass1(
        [s EXCEPT !.prevtx_verified = @ \cup {s.input_index},
                  !.input_index = @ + 1,
                  !.prevtx_input_index = 0,
                  !.prevtx_output_index = 0,
                  !.tx_input = None,
                  !.prevtx_init = None,
                  !.hasher = <<>>])

\* Mutant of handle_prevtx_finish: a hash mismatch is reported as InvalidState.
handle_prevtx_finish_wrong_error(s) ==
    LET init == s.prevtx_init[1]
        input == s.tx_input[1]
        hash == Sha256(Sha256(s.hasher \o to_le_bytes(init.locktime, 4)))
    IN  IF hash # input.prev_out_hash
        THEN Err(s, "InvalidState")
        ELSE handle_prevtx_finish_unchecked(s)

\* The end of handle_prevtx: feed the locktime, hash again and compare with
\* the input's prev_out_hash.  On success _process goes on with the next input.
handle_prevtx_finish(s) ==
    LET init == s.prevtx_init[1]
        input == s.tx_input[1]
        hash == Sha256(Sha256(s.hasher \o to_le_bytes(init.locktime, 4)))
    IN  IF hash # input.prev_out_hash
        THEN Err(s, "InvalidInput")
        ELSE process_inputs_pass1(
                [s EXCEPT !.prevtx_verified = @ \cup {s.input_index},
                          !.input_index = @ + 1,
                          !.prevtx_input_index = 0,
                          !.prevtx_output_index = 0,
                          !.tx_input = None,
                          !.prevtx_init = None,
                          !.hasher = <<>>])

\* `for prevtx_output_index in 0..num_outputs` up to the await of
\* get_prevtx_output.
handle_prevtx_outputs(s) ==
    LET init == s.prevtx_init[1]
        progress == prevtx_output_progress(U32(s.input_index),
                        U32(s.request.num_inputs), init.num_inputs,
                        init.num_outputs, U32(s.prevtx_output_index))
    IN  IF LessBytes(U32(s.prevtx_output_index), init.num_outputs)
        THEN IF progress.overflow /\ s.overflow_checks = Some(TRUE)
             THEN panic(s)
             ELSE get_request_send(NextType_PrevtxOutput, s.input_index,
                    Some(s.prevtx_output_index), "prevtx_output",
                    [s EXCEPT !.progress_component =
                        progress_set(@, progress.value[1])])
        ELSE handle_prevtx_finish(s)

\* Mutant of handle_prevtx_inputs: index and prev_index of the hint are
\* swapped.
handle_prevtx_inputs_swapped_indices(s) ==
    LET init == s.prevtx_init[1]
        progress == prevtx_input_progress(U32(s.input_index),
                        U32(s.request.num_inputs), init.num_inputs,
                        init.num_outputs, U32(s.prevtx_input_index))
    IN  IF LessBytes(U32(s.prevtx_input_index), init.num_inputs)
        THEN IF progress.overflow /\ s.overflow_checks = Some(TRUE)
             THEN panic(s)
             ELSE get_request_send(NextType_PrevtxInput, s.prevtx_input_index,
                    Some(s.input_index), "prevtx_input",
                    [s EXCEPT !.progress_component =
                        progress_set(@, progress.value[1])])
        ELSE handle_prevtx_outputs(
                [s EXCEPT !.hasher = @ \o serialize_varint(U64(init.num_outputs)),
                          !.prevtx_output_index = 0])

\* `for prevtx_input_index in 0..num_inputs` up to the await of
\* get_prevtx_input; after the loop the output count is fed to the hasher.
handle_prevtx_inputs(s) ==
    LET init == s.prevtx_init[1]
        progress == prevtx_input_progress(U32(s.input_index),
                        U32(s.request.num_inputs), init.num_inputs,
                        init.num_outputs, U32(s.prevtx_input_index))
    IN  IF LessBytes(U32(s.prevtx_input_index), init.num_inputs)
        THEN IF progress.overflow /\ s.overflow_checks = Some(TRUE)
             THEN panic(s)
             ELSE get_request_send(NextType_PrevtxInput, s.input_index,
                    Some(s.prevtx_input_index), "prevtx_input",
                    [s EXCEPT !.progress_component =
                        progress_set(@, progress.value[1])])
        ELSE handle_prevtx_outputs(
                [s EXCEPT !.hasher = @ \o serialize_varint(U64(init.num_outputs)),
                          !.prevtx_output_index = 0])

\* Mutant of handle_prevtx_init: the counts of the previous transaction are
\* not checked.
handle_prevtx_init_unchecked(reply, s) ==
    LET r == get_prevtx_init(reply, s)
        init == r.request
    IN  IF r.err # None THEN Err(r.s, r.err[1])
        ELSE handle_prevtx_inputs(
                [r.s EXCEPT !.prevtx_init = Some(init),
                            !.hasher = to_le_bytes(init.version, 4)
                                       \o serialize_varint(U64(init.num_inputs)),
                            !.prevtx_input_index = 0])

\* handle_prevtx resumed with the reply to the PrevtxInit hint.
handle_prevtx_init(reply, s) ==
    LET r == get_prevtx_init(reply, s)
        init == r.request
    IN  IF r.err # None THEN Err(r.s, r.err[1])
        ELSE IF LessBytes(init.num_inputs, U32(1)) \/ LessBytes(init.num_outputs, U32(1))
        THEN Err(r.s, "InvalidInput")
        ELSE handle_prevtx_inputs(
                [r.s EXCEPT !.prevtx_init = Some(init),
                            !.hasher = to_le_bytes(init.version, 4)
                                       \o serialize_varint(U64(init.num_inputs)),
                            !.prevtx_input_index = 0])

\* Mutant of handle_prevtx_input: the sequence number is not hashed.
handle_prevtx_input_skips_sequence(reply, s) ==
    LET r == get_prevtx_input(reply, s)
        prevtx_input == r.request
    IN  IF r.err # None THEN Err(r.s, r.err[1])
        ELSE handle_prevtx_inputs(
                [r.s EXCEPT !.hasher = @ \o prevtx_input.prev_out_hash
                                \o to_le_bytes(prevtx_input.prev_out_index, 4)
                                \o serialize_varint(U64Of(Len(prevtx_input.signature_script)))
                                \o prevtx_input.signature_script,
                            !.prevtx_input_index = @ + 1])

\* handle_prevtx resumed with the reply to a PrevtxInput hint.
handle_prevtx_input(reply, s) ==
    LET r == get_prevtx_input(reply, s)
        prevtx_input == r.request
    IN  IF r.err # None THEN Err(r.s, r.err[1])
        ELSE handle_prevtx_inputs(
                [r.s EXCEPT !.hasher = @ \o prevtx_input.prev_out_hash
                                \o to_le_bytes(prevtx_input.prev_out_index, 4)
                                \o serialize_varint(U64Of(Len(prevtx_input.signature_script)))
                                \o prevtx_input.signature_script
                                \o to_le_bytes(prevtx_input.sequence, 4),
                            !.prevtx_input_index = @ + 1])

\* Mutant of handle_prevtx_output: the value of the spent output is not
\* compared.
handle_prevtx_output_value_unchecked(reply, s) ==
    LET r == get_prevtx_output(reply, s)
        prevtx_output == r.request
    IN  IF r.err # None THEN Err(r.s, r.err[1])
        ELSE handle_prevtx_outputs(
                [r.s EXCEPT !.hasher = @ \o to_le_bytes(prevtx_output.value, 8)
                                \o serialize_varint(U64Of(Len(prevtx_output.pubkey_script)))
                                \o prevtx_output.pubkey_script,
                            !.prevtx_output_index = @ + 1])

\* handle_prevtx resumed with the reply to a PrevtxOutput hint.
handle_prevtx_output(reply, s) ==
    LET r == get_prevtx_output(reply, s)
        prevtx_output == r.request
        input == s.tx_input[1]
    IN  IF r.err # None THEN Err(r.s, r.err[1])
        ELSE IF /\ s.prevtx_output_index = input.prev_out_index
                /\ input.prev_out_value # prevtx_output.value
        THEN Err(r.s, "InvalidInput")
        ELSE handle_prevtx_outputs(
                [r.s EXCEPT !.hasher = @ \o to_le_bytes(prevtx_output.value, 8)
                                \o serialize_varint(U64Of(Len(prevtx_output.pubkey_script)))
                                \o prevtx_output.pubkey_script,
                            !.prevtx_output_index = @ + 1])

\* ---------------------------------------------------------------- _process
\* Mutant of process_start: the keystore is not checked.
process_start_no_lock_check(init_result, s) ==
    LET s1 == NativeCall(s, "sign_init", 0, FALSE, init_result)
    IN  IF init_result # "Ok" THEN Err(s1, init_result)
        ELSE process_inputs_pass1(
                [s1 EXCEPT
                    !.progress_component =
                        Some(progress_create("Loading transaction...")),
                    !.screen_stack = screen_stack_push(@, "Loading transaction..."),
                    !.screen_pushes = @ + 1,
                    !.next_response = [next |-> DefaultNext, wrap |-> FALSE],
                    !.input_index = 0])

\* Mutant of process_start: the progress bar is created before sign_init.
process_start_progress_first(init_result, s) ==
    IF s.keystore_locked THEN Err(s, "InvalidState")
    ELSE LET s0 == [s EXCEPT
                        !.progress_component =
                            Some(progress_create("Loading transaction...")),
                        !.screen_stack =
                            screen_stack_push(@, "Loading transaction..."),
                        !.screen_pushes = @ + 1]
             s1 == NativeCall(s0, "sign_init", 0, FALSE, init_result)
         IN  IF init_result # "Ok" THEN Err(s1, init_result)
             ELSE process_inputs_pass1(
                    [s1 EXCEPT
                        !.next_response = [next |-> DefaultNext, wrap |-> FALSE],
                        !.input_index = 0])

\* Mutant of process_start: the response starts out flagged as carrying a
\* signature.
process_start_flagged_response(init_result, s) ==
    IF s.keystore_locked THEN Err(s, "InvalidState")
    ELSE LET s1 == NativeCall(s, "sign_init", 0, FALSE, init_result)
         IN  IF init_result # "Ok" THEN Err(s1, init_result)
             ELSE process_inputs_pass1(
                    [s1 EXCEPT
                        !.progress_component =
                            Some(progress_create("Loading transaction...")),
                        !.screen_stack =
                            screen_stack_push(@, "Loading transaction..."),
                        !.screen_pushes = @ + 1,
                        !.next_response =
                            [next |-> [DefaultNext EXCEPT !.has_signature = TRUE],
                             wrap |-> FALSE],
                        !.input_index = 0])

\* _process from its entry to the first await.
process_start(init_result, s) ==
    IF s.keystore_locked THEN Err(s, "InvalidState")
    ELSE LET s1 == NativeCall(s, "sign_init", 0, FALSE, init_result)
         IN  IF init_result # "Ok" THEN Err(s1, init_result)
             ELSE process_inputs_pass1(
                    [s1 EXCEPT
                        !.progress_component =
                            Some(progress_create("Loading transaction...")),
                        !.screen_stack =
                            screen_stack_push(@, "Loading transaction..."),
                        !.screen_pushes = @ + 1,
                        !.next_response = [next |-> DefaultNext, wrap |-> FALSE],
                        !.input_index = 0])

\* Pass 1 resumed with the reply to an Input hint: sign_input_pass1, then
\* handle_prevtx up to the await of get_prevtx_init.
process_input_pass1(reply, native, s) ==
    LET r == get_tx_input(reply, s)
        last == s.input_index = s.request.num_inputs - 1
    IN  IF r.err # None THEN Err(r.s, r.err[1])
        ELSE LET s1 == NativeCall(
                        [r.s EXCEPT !.tx_input = Some(r.request),
                                    !.pass1_value = Append(@, r.request.prev_out_value)],
                        "sign_input_pass1", s.input_index, last, native)
             IN  IF native # "Ok" THEN Err(s1, native)
                 ELSE get_request_send(NextType_PrevtxInit, s.input_index, None,
                                       "prevtx_init", s1)

\* Mutant of process_output: a cancelled confirmation does not end the session.
process_output_ignoring_abort(reply, native, s) ==
    LET r == get_tx_output(reply, s)
        last == s.output_index = s.request.num_outputs - 1
    IN  IF r.err # None THEN Err(r.s, r.err[1])
        ELSE LET s1 == IF s.output_index = 0
                       THEN [r.s EXCEPT
                                !.progress_component = None,
                                !.empty_component = Some("empty"),
                                !.screen_stack =
                                    screen_stack_push(
                                        drop(@, s.progress_component), "empty"),
                                !.screen_pushes = @ + 1]
                       ELSE r.s
                 s2 == NativeCall(s1, "sign_output", s.output_index, last, native)
             IN  IF native = "InvalidInput" THEN Err(s2, native)
                 ELSE process_outputs([s2 EXCEPT !.output_index = @ + 1])

\* Mutant of process_output: the placeholder replaces the progress bar only
\* after sign_output.
process_output_placeholder_after_sign(reply, native, s) ==
    LET r == get_tx_output(reply, s)
        last == s.output_index = s.request.num_outputs - 1
    IN  IF r.err # None THEN Err(r.s, r.err[1])
        ELSE LET s1 == NativeCall(r.s, "sign_output", s.output_index, last, native)
                 s2 == IF s.output_index = 0
                       THEN [s1 EXCEPT
                                !.progress_component = None,
                                !.empty_component = Some("empty"),
                                !.screen_stack =
                                    screen_stack_push(
                                        drop(@, s.progress_component), "empty"),
                                !.screen_pushes = @ + 1]
                       ELSE s1
             IN  IF native # "Ok" THEN Err(s1, native)
                 ELSE process_outputs([s2 EXCEPT !.output_index = @ + 1])

\* Mutant of process_output: `last` is computed from the number of inputs.
process_output_last_from_inputs(reply, native, s) ==
    LET r == get_tx_output(reply, s)
        last == s.output_index = s.request.num_inputs - 1
    IN  IF r.err # None THEN Err(r.s, r.err[1])
        ELSE LET s1 == IF s.output_index = 0
                       THEN [r.s EXCEPT
                                !.progress_component = None,
                                !.empty_component = Some("empty"),
                                !.screen_stack =
                                    screen_stack_push(
                                        drop(@, s.progress_component), "empty"),
                                !.screen_pushes = @ + 1]
                       ELSE r.s
                 s2 == NativeCall(s1, "sign_output", s.output_index, last, native)
             IN  IF native # "Ok" THEN Err(s2, native)
                 ELSE process_outputs([s2 EXCEPT !.output_index = @ + 1])

\* The output loop resumed with the reply to an Output hint.
process_output(reply, native, s) ==
    LET r == get_tx_output(reply, s)
        last == s.output_index = s.request.num_outputs - 1
    IN  IF r.err # None THEN Err(r.s, r.err[1])
        ELSE LET s1 == IF s.output_index = 0
                       THEN [r.s EXCEPT
                                !.progress_component = None,
                                !.empty_component = Some("empty"),
                                !.screen_stack =
                                    screen_stack_push(
                                        drop(@, s.progress_component), "empty"),
                                !.screen_pushes = @ + 1]
                       ELSE r.s
                 s2 == NativeCall(s1, "sign_output", s.output_index, last, native)
             IN  IF native # "Ok" THEN Err(s2, native)
                 ELSE process_outputs([s2 EXCEPT !.output_index = @ + 1])

\* Mutant of process_status_confirmed: the placeholder is forgotten, not
\* dropped.
process_status_confirmed_keeps_placeholder(s) ==
    LET stack == s.screen_stack
        show == s.request.num_inputs > 2
    IN  process_inputs_pass2(
            [s EXCEPT !.empty_component = None,
                      !.progress_component =
                          IF show THEN Some(progress_create("Signing transaction..."))
                          ELSE None,
                      !.screen_stack =
                          IF show THEN screen_stack_push(stack, "Signing transaction...")
                          ELSE stack,
                      !.screen_pushes = IF show THEN @ + 1 ELSE @,
                      !.input_index = 0])

\* Mutant of process_status_confirmed: the signing progress bar is created
\* already for 2 inputs.
process_status_confirmed_progress_for_two(s) ==
    LET stack == drop(s.screen_stack, s.empty_component)
        show == s.request.num_inputs >= 2
    IN  process_inputs_pass2(
            [s EXCEPT !.empty_component = None,
                      !.progress_component =
                          IF show THEN Some(progress_create("Signing transaction..."))
                          ELSE None,
                      !.screen_stack =
                          IF show THEN screen_stack_push(stack, "Signing transaction...")
                          ELSE stack,
                      !.screen_pushes = IF show THEN @ + 1 ELSE @,
                      !.input_index = 0])

\* _process resumed after the "Transaction confirmed" toast: drop the
\* placeholder, create the signing progress bar for more than 2 inputs.
process_status_confirmed(s) ==
    LET stack == drop(s.screen_stack, s.empty_component)
        show == s.request.num_inputs > 2
    IN  process_inputs_pass2(
            [s EXCEPT !.empty_component = None,
                      !.progress_component =
                          IF show THEN Some(progress_create("Signing transaction..."))
                          ELSE None,
                      !.screen_stack =
                          IF show THEN screen_stack_push(stack, "Signing transaction...")
                          ELSE stack,
                      !.screen_pushes = IF show THEN @ + 1 ELSE @,
                      !.input_index = 0])

\* The end of an iteration of pass 2: update the progress, next input.
process_input_signed(s) ==
    process_inputs_pass2(
        [s EXCEPT !.progress_component =
                      progress_set(@, pass2_progress(U32(s.input_index),
                                        U32(s.request.num_inputs)).value[1]),
                  !.input_index = @ + 1,
                  !.tx_input = None])

\* app_btc::sign_input_pass2 and sign_antiklepto, symbolic.
sign_input_pass2(index, input) ==
    [signature |-> [signer |-> "sign_input_pass2", index |-> index, msg |-> input],
     anti_klepto_signer_commitment |->
        [index |-> index, host_nonce_commitment |-> input.host_nonce_commitment]]
sign_antiklepto(index, host_nonce) ==
    [signer |-> "sign_antiklepto", index |-> index, msg |-> host_nonce]

\* Mutant of process_input_pass2: has_signature is set before the host nonce
\* is requested.
process_input_pass2_flag_early(reply, native, s) ==
    LET r == get_tx_input(reply, s)
        last == s.input_index = s.request.num_inputs - 1
    IN  IF r.err # None THEN Err(r.s, r.err[1])
        ELSE LET s1 == NativeCall([r.s EXCEPT !.tx_input = Some(r.request)],
                                  "sign_input_pass2", s.input_index, last, native)
                 signed == sign_input_pass2(s.input_index, r.request)
             IN  IF native # "Ok" THEN Err(s1, native)
                 ELSE IF r.request.host_nonce_commitment # None
                 THEN get_request_send(NextType_HostNonce, s.input_index, None,
                        "host_nonce",
                        [s1 EXCEPT !.next_response.next.has_signature = TRUE,
                                   !.next_response.next.anti_klepto_signer_commitment =
                            Some([commitment |-> signed.anti_klepto_signer_commitment])])
                 ELSE process_input_signed(
                        [s1 EXCEPT !.next_response.next.has_signature = TRUE,
                                   !.next_response.next.signature =
                                        <<signed.signature>>])

\* Mutant of process_input_pass2: the signature of sign_input_pass2 is not
\* stored in the response.
process_input_pass2_drops_signature(reply, native, s) ==
    LET r == get_tx_input(reply, s)
        last == s.input_index = s.request.num_inputs - 1
    IN  IF r.err # None THEN Err(r.s, r.err[1])
        ELSE LET s1 == NativeCall([r.s EXCEPT !.tx_input = Some(r.request)],
                                  "sign_input_pass2", s.input_index, last, native)
                 signed == sign_input_pass2(s.input_index, r.request)
             IN  IF native # "Ok" THEN Err(s1, native)
                 ELSE IF r.request.host_nonce_commitment # None
                 THEN get_request_send(NextType_HostNonce, s.input_index, None,
                        "host_nonce",
                        [s1 EXCEPT !.next_response.next.anti_klepto_signer_commitment =
                            Some([commitment |-> signed.anti_klepto_signer_commitment])])
                 ELSE process_input_signed(
                        [s1 EXCEPT !.next_response.next.has_signature = TRUE])

\* Mutant of process_input_pass2: the signature of sign_input_pass2 is stored
\* in the response before the host nonce is requested.
process_input_pass2_stages_first_signature(reply, native, s) ==
    LET r == get_tx_input(reply, s)
        last == s.input_index = s.request.num_inputs - 1
    IN  IF r.err # None THEN Err(r.s, r.err[1])
        ELSE LET s1 == NativeCall([r.s EXCEPT !.tx_input = Some(r.request)],
                                  "sign_input_pass2", s.input_index, last, native)
                 signed == sign_input_pass2(s.input_index, r.request)
                 s2 == [s1 EXCEPT !.next_response.next.signature =
                                        <<signed.signature>>]
             IN  IF native # "Ok" THEN Err(s1, native)
                 ELSE IF r.request.host_nonce_commitment # None
                 THEN get_request_send(NextType_HostNonce, s.input_index, None,
                        "host_nonce",
                        [s2 EXCEPT !.next_response.next.anti_klepto_signer_commitment =
                            Some([commitment |-> signed.anti_klepto_signer_commitment])])
                 ELSE process_input_signed(
                        [s2 EXCEPT !.next_response.next.has_signature = TRUE])

\* Mutant of process_input_pass2: the value of the record is compared with
\* the one given in pass 1.
process_input_pass2_cross_checks(reply, native, s) ==
    LET r == get_tx_input(reply, s)
        last == s.input_index = s.request.num_inputs - 1
    IN  IF r.err # None THEN Err(r.s, r.err[1])
        ELSE IF r.request.prev_out_value # s.pass1_value[s.input_index + 1]
        THEN Err(r.s, "InvalidInput")
        ELSE LET s1 == NativeCall([r.s EXCEPT !.tx_input = Some(r.request)],
                                  "sign_input_pass2", s.input_index, last, native)
                 signed == sign_input_pass2(s.input_index, r.request)
             IN  IF native # "Ok" THEN Err(s1, native)
                 ELSE IF r.request.host_nonce_commitment # None
                 THEN get_request_send(NextType_HostNonce, s.input_index, None,
                        "host_nonce",
                        [s1 EXCEPT !.next_response.next.anti_klepto_signer_commitment =
                            Some([commitment |-> signed.anti_klepto_signer_commitment])])
                 ELSE process_input_signed(
                        [s1 EXCEPT !.next_response.next.has_signature = TRUE,
                                   !.next_response.next.signature =
                                        <<signed.signature>>])

\* Mutant of process_input_pass2: the host nonce commitment of the input is
\* ignored.
process_input_pass2_no_antiklepto(reply, native, s) ==
    LET r == get_tx_input(reply, s)
        last == s.input_index = s.request.num_inputs - 1
    IN  IF r.err # None THEN Err(r.s, r.err[1])
        ELSE LET s1 == NativeCall([r.s EXCEPT !.tx_input = Some(r.request)],
                                  "sign_input_pass2", s.input_index, last, native)
                 signed == sign_input_pass2(s.input_index, r.request)
             IN  IF native # "Ok" THEN Err(s1, native)
                 ELSE process_input_signed(
                        [s1 EXCEPT !.next_response.next.has_signature = TRUE,
                                   !.next_response.next.signature =
                                        <<signed.signature>>])

\* Pass 2 resumed with the reply to an Input hint.
process_input_pass2(reply, native, s) ==
    LET r == get_tx_input(reply, s)
        last == s.input_index = s.request.num_inputs - 1
    IN  IF r.err # None THEN Err(r.s, r.err[1])
        ELSE LET s1 == NativeCall([r.s EXCEPT !.tx_input = Some(r.request)],
                                  "sign_input_pass2", s.input_index, last, native)
                 signed == sign_input_pass2(s.input_index, r.request)
             IN  IF native # "Ok" THEN Err(s1, native)
                 ELSE IF r.request.host_nonce_commitment # None
                 THEN get_request_send(NextType_HostNonce, s.input_index, None,
                        "host_nonce",
                        [s1 EXCEPT !.next_response.next.anti_klepto_signer_commitment =
                            Some([commitment |-> signed.anti_klepto_signer_commitment])])
                 ELSE process_input_signed(
                        [s1 EXCEPT !.next_response.next.has_signature = TRUE,
                                   !.next_response.next.signature =
                                        <<signed.signature>>])

\* Mutant of process_host_nonce: has_signature is not set for the anti-klepto
\* signature.
process_host_nonce_no_flag(reply, native, s) ==
    LET r == get_antiklepto_host_nonce(reply, s)
    IN  IF r.err # None THEN Err(r.s, r.err[1])
        ELSE LET s1 == NativeCall(r.s, "sign_antiklepto", s.input_index, FALSE, native)
             IN  IF native # "Ok" THEN Err(s1, native)
                 ELSE process_input_signed(
                        [s1 EXCEPT !.next_response.next.signature =
                            <<sign_antiklepto(s.input_index, r.request)>>])

\* Pass 2 resumed with the reply to a HostNonce hint.
process_host_nonce(reply, native, s) ==
    LET r == get_antiklepto_host_nonce(reply, s)
    IN  IF r.err # None THEN Err(r.s, r.err[1])
        ELSE LET s1 == NativeCall(
                        [r.s EXCEPT !.next_response.next.has_signature = TRUE],
                        "sign_antiklepto", s.input_index, FALSE, native)
             IN  IF native # "Ok" THEN Err(s1, native)
                 ELSE process_input_signed(
                        [s1 EXCEPT !.next_response.next.signature =
                            <<sign_antiklepto(s.input_index, r.request)>>])

\* process resumed after the "Transaction canceled" toast: it returns.
process_status_canceled(s) == [s EXCEPT !.pc = "done"]

\* ------------------------------------------------- environment observation
ReplyFault(reply, demanded) ==
    IF reply.kind = "Err" THEN "transport"
    ELSE IF reply.variant # demanded THEN "variant"
    ELSE "none"

NativeFault(res) ==
    IF res = "Ok" THEN "none" ELSE IF res = "UserAbort" THEN "user" ELSE "native"

First(f, g) == IF f # "none" THEN f ELSE g

StreamedTx(st) == [init |-> st.init[1], inputs |-> st.inputs, outputs |-> st.outputs]

\* The verdict on a previous transaction streamed in full for `input`: whether
\* its id is the input's prev_out_hash, and how the output the input spends
\* compares with the input's prev_out_value.
Audit(index, input, st) ==
    LET tx == StreamedTx(st)
    IN  [index |-> index,
         txid_matches |-> Txid(tx) = input.prev_out_hash,
         spent_output |->
            IF input.prev_out_index >= Len(tx.outputs) THEN "absent"
            ELSE IF tx.outputs[input.prev_out_index + 1].value = input.prev_out_value
            THEN "equal" ELSE "differs"]

Complete(st) == st.init # None /\ U32(Len(st.outputs)) = st.init[1].num_outputs

\* The previous transaction is inconsistent with the input record: the output
\* just streamed is the one the input spends and has another value, or the
\* transaction is complete and has another id.
PrevtxOutputFault(input, st) ==
    LET k == Len(st.outputs) - 1
    IN  IF k = input.prev_out_index /\ st.outputs[k + 1].value # input.prev_out_value
        THEN "prevtx"
        ELSE IF Complete(st) /\ Txid(StreamedTx(st)) # input.prev_out_hash
        THEN "prevtx"
        ELSE "none"

Observed(s, t, flt, st) ==
    [t EXCEPT !.fault = First(s.fault, flt),
              !.prevtx_audit = None,
              !.pass2_input = None,
              !.value_audit = None,
              !.streamed = IF \/ t.pc \in {"prevtx_input", "prevtx_output"}
                              \/ s.pc = "prevtx_init" /\ flt = "prevtx"
                           THEN st ELSE NoStream]

\* The step received the Input record of pass 2: note it.
ObservedInput(s, t, reply, flt) ==
    [Observed(s, t, flt, NoStream) EXCEPT
        !.pass2_input = IF reply.variant = "BtcSignInput" THEN Some(reply.msg)
                        ELSE None]

\* The step received a PrevtxOutput: when it completes the transaction, note
\* the verdict.
ObservedOutput(s, t, reply, st) ==
    LET full == reply.variant = "PrevtxOutput" /\ Complete(st)
        audit == Audit(s.input_index, s.tx_input[1], st)
        o == Observed(s, t,
                First(ReplyFault(reply, "PrevtxOutput"),
                      IF reply.variant = "PrevtxOutput"
                      THEN PrevtxOutputFault(s.tx_input[1], st) ELSE "none"),
                st)
        spent == /\ reply.variant = "PrevtxOutput"
                 /\ Len(st.outputs) - 1 = s.tx_input[1].prev_out_index
        o1 == IF ~spent THEN o
              ELSE [o EXCEPT !.value_audit =
                        Some([index |-> s.input_index,
                              equal |-> reply.msg.value = s.tx_input[1].prev_out_value,
                              last |-> Complete(st)])]
    IN  IF ~full THEN o1
        ELSE [o1 EXCEPT !.prevtx_audit = Some(audit),
                        !.txid_matched = IF audit.txid_matches
                                         THEN @ \cup {s.input_index} ELSE @]

\* The host's side of the step, tallied in a session whose round trips are
\* counted: one more for the round trip next_request completed; one less for
\* every round trip a message of the host accounts for, which are the
\* 1 + num_inputs + num_outputs of the previous transaction a PrevtxInit
\* announces (itself, its inputs, its outputs) and the HostNonce round trip a
\* pass-2 input with a host nonce commitment asks for.  A session is no
\* longer tallied once a PrevtxInit announces counts whose sum is outside
\* u32.
Tally(reply, s, t) ==
    IF s.trips = None THEN t
    ELSE IF /\ s.pc = "prevtx_init" /\ reply.variant = "PrevtxInit"
            /\ overflowing_add(reply.msg.num_inputs, reply.msg.num_outputs).overflow
    THEN [t EXCEPT !.trips = None]
    ELSE LET init == s.pc = "prevtx_init" /\ reply.variant = "PrevtxInit"
             commits == /\ s.pc = "input_pass2"
                        /\ reply.variant = "BtcSignInput"
                        /\ reply.msg.host_nonce_commitment # None
             round_trip == IF reply.kind = "Ok" THEN 1 ELSE 0
             prevtx == IF init
                       THEN 1 + from_le_bytes(reply.msg.num_inputs)
                              + from_le_bytes(reply.msg.num_outputs)
                       ELSE 0
             committed == IF commits THEN 1 ELSE 0
         IN  [t EXCEPT !.trips = Some(s.trips[1] + round_trip - prevtx - committed)]

NativeChoices(reply, demanded, results) ==
    IF ReplyFault(reply, demanded) = "none" THEN results ELSE {"Ok"}

\* The build the step that receives a PrevtxInit runs on: either one as long
\* as no addition has overflowed, the one the first overflow has shown
\* afterwards.  The additions of handle_prevtx overflow only if the sum of the
\* two counts does (num_inputs + prevtx_output_index is below that sum), and
\* that sum is first evaluated in the step that receives the PrevtxInit: in
\* the later steps of handle_prevtx the build is known whenever it matters.
PanicStrategies == {"abort", "unwind"}
Builds ==
    [overflow_checks : IF overflow_checks = None THEN BOOLEAN
                       ELSE {overflow_checks[1]},
     panic_strategy : IF panic_strategy = None THEN PanicStrategies
                      ELSE {panic_strategy[1]}]
Built(build) ==
    [State EXCEPT !.overflow_checks = Some(build.overflow_checks),
                  !.panic_strategy = Some(build.panic_strategy)]

\* The sum of the counts of the previous transaction in scope is outside u32.
SumOverflows(s) ==
    /\ s.prevtx_init # None
    /\ overflowing_add(s.prevtx_init[1].num_inputs,
                       s.prevtx_init[1].num_outputs).overflow

\* The step evaluated an overflowing addition: if it panicked, how the build
\* treats overflows and panics is known from now on; if it wrapped and went
\* on to the next hint of handle_prevtx, how it treats overflows is.
BuildShown(t) ==
    IF t.pc = "panicked"
    THEN t
    ELSE IF t.pc \in {"prevtx_input", "prevtx_output"} /\ SumOverflows(t)
    THEN [t EXCEPT !.panic_strategy = panic_strategy]
    ELSE [t EXCEPT !.overflow_checks = overflow_checks,
                   !.panic_strategy = panic_strategy]

\* The host streams at most MaxPrevOutputs outputs of a previous transaction,
\* whatever count it announced; after that it answers with something else.
PrevtxOutputReplies ==
    {reply \in Replies("PrevtxOutput") :
        reply.variant = "PrevtxOutput" => Len(streamed.outputs) < MaxPrevOutputs}

\* ----------------------------------------------------------------- actions
Process ==
    /\ pc = "start"
    /\ \E init_result \in SignInitResults(request) :
       \E t \in {process_start(init_result, State)} :
          SetState(Observed(State, t,
                IF keystore_locked THEN "locked" ELSE NativeFault(init_result),
                NoStream))

InputPass1 ==
    /\ pc = "input_pass1"
    /\ \E reply \in Replies("BtcSignInput") :
       \E native \in NativeChoices(reply, "BtcSignInput", NativeResults) :
       \E t \in {process_input_pass1(reply, native, State)} :
          SetState(Tally(reply, State, Observed(State, t,
                First(ReplyFault(reply, "BtcSignInput"), NativeFault(native)),
                NoStream)))

PrevtxInit ==
    /\ pc = "prevtx_init"
    /\ \E reply \in Replies("PrevtxInit") :
       \E t \in {BuildShown(handle_prevtx_init(reply, Built(build))) : build \in Builds} :
          SetState(Tally(reply, State, Observed(State, t,
                First(ReplyFault(reply, "PrevtxInit"),
                      IF reply.variant = "PrevtxInit"
                         /\ (reply.msg.num_inputs = U32(0) \/ reply.msg.num_outputs = U32(0))
                      THEN "prevtx" ELSE "none"),
                [init |-> Some(reply.msg), inputs |-> <<>>, outputs |-> <<>>])))

PrevtxInput ==
    /\ pc = "prevtx_input"
    /\ \E reply \in Replies("PrevtxInput") :
       \E t \in {handle_prevtx_input(reply, State)} :
          SetState(Tally(reply, State, Observed(State, t,
                ReplyFault(reply, "PrevtxInput"),
                [streamed EXCEPT !.inputs = Append(@, reply.msg)])))

PrevtxOutput ==
    /\ pc = "prevtx_output"
    /\ \E reply \in PrevtxOutputReplies :
       \E t \in {handle_prevtx_output(reply, State)} :
          SetState(Tally(reply, State, ObservedOutput(State, t, reply,
                [streamed EXCEPT !.outputs = Append(@, reply.msg)])))

Output ==
    /\ pc = "output"
    /\ \E reply \in Replies("BtcSignOutput") :
       \E native \in NativeChoices(reply, "BtcSignOutput", SignOutputResults) :
       \E t \in {process_output(reply, native, State)} :
          SetState(Tally(reply, State, Observed(State, t,
                First(ReplyFault(reply, "BtcSignOutput"), NativeFault(native)),
                NoStream)))

StatusConfirmed ==
    /\ pc = "status_confirmed"
    /\ SetState(Observed(State, process_status_confirmed(State), "none", NoStream))

InputPass2 ==
    /\ pc = "input_pass2"
    /\ \E reply \in Replies("BtcSignInput") :
       \E native \in NativeChoices(reply, "BtcSignInput", NativeResults) :
       \E t \in {process_input_pass2(reply, native, State)} :
          SetState(Tally(reply, State, ObservedInput(State, t, reply,
                First(ReplyFault(reply, "BtcSignInput"), NativeFault(native)))))

HostNonce ==
    /\ pc = "host_nonce"
    /\ \E reply \in Replies("AntikleptoSignature") :
       \E native \in NativeChoices(reply, "AntikleptoSignature", NativeResults) :
       \E t \in {process_host_nonce(reply, native, State)} :
          SetState(Tally(reply, State, Observed(State, t,
                First(ReplyFault(reply, "AntikleptoSignature"), NativeFault(native)),
                NoStream)))

StatusCanceled ==
    /\ pc = "status_canceled"
    /\ SetState(Observed(State, process_status_canceled(State), "none", NoStream))

Next ==
    \/ Process
    \/ InputPass1
    \/ PrevtxInit
    \/ PrevtxInput
    \/ PrevtxOutput
    \/ Output
    \/ StatusConfirmed
    \/ InputPass2
    \/ HostNonce
    \/ StatusCanceled

Spec == Init /\ [][Next]_vars

\* The host answers every hint and the toasts end: a suspended session is
\* eventually resumed.
\* ------------------------------------------- the progress arithmetic alone
\* The operands one evaluation can meet: an input index inside the loop
\* `for input_index in 0..num_inputs`, counts of a PrevtxInit that passed the
\* `< 1` check of handle_prevtx, and whether overflow checks are compiled in.
ArithInputs ==
    {a \in [overflow_checks : BOOLEAN, num_inputs : U32Samples,
             input_index : U32Samples, prevtx_num_inputs : U32Samples,
             prevtx_num_outputs : U32Samples, site : {"drawn"},
             prevtx_index : {None}, overflow : {FALSE}, panic : {FALSE},
             value : {None}] :
        /\ LessBytes(a.input_index, a.num_inputs)
        /\ ~LessBytes(a.prevtx_num_inputs, U32(1))
        /\ ~LessBytes(a.prevtx_num_outputs, U32(1))}

ArithInit ==
    /\ keystore_locked = FALSE
    /\ request = [version |-> 1, num_inputs |-> 1, num_outputs |-> 1, locktime |-> 0]
    /\ Entry
    /\ trips = None
    /\ previous_result = None
    /\ overflow_checks = None
    /\ panic_strategy = None
    /\ arith \in {Some(a) : a \in ArithInputs}

\* One expression evaluated: an overflow panics where overflow checks are
\* compiled in and wraps elsewhere.
Evaluated(site, k, r) ==
    /\ arith' = Some([arith[1] EXCEPT
                        !.site = site,
                        !.prevtx_index = k,
                        !.overflow = r.overflow,
                        !.panic = r.overflow /\ arith[1].overflow_checks,
                        !.value = IF r.overflow /\ arith[1].overflow_checks
                                  THEN None ELSE r.value])
    /\ UNCHANGED session

\* With overflow checks compiled in, handle_prevtx panics before the first
\* previous input is requested when the sum of the drawn counts overflows:
\* nothing after that point is evaluated.
PanicsAtFirstPrevtxInput ==
    /\ arith[1].overflow_checks
    /\ overflowing_add(arith[1].prevtx_num_inputs,
                       arith[1].prevtx_num_outputs).overflow

ArithPass1 ==
    /\ arith # None /\ arith[1].site = "drawn"
    /\ Evaluated("pass1", None,
            pass1_progress(arith[1].input_index, arith[1].num_inputs))

ArithLast ==
    /\ arith # None /\ arith[1].site = "drawn"
    /\ Evaluated("last", None, is_last(arith[1].input_index, arith[1].num_inputs))

ArithPrevtxInput ==
    /\ arith # None /\ arith[1].site = "drawn"
    /\ \E k \in U32Samples :
        /\ LessBytes(k, arith[1].prevtx_num_inputs)
        /\ PanicsAtFirstPrevtxInput => k = U32(0)
        /\ Evaluated("prevtx_input", Some(k),
                prevtx_input_progress(arith[1].input_index, arith[1].num_inputs,
                    arith[1].prevtx_num_inputs, arith[1].prevtx_num_outputs, k))

ArithPrevtxOutput ==
    /\ arith # None /\ arith[1].site = "drawn"
    /\ ~PanicsAtFirstPrevtxInput
    /\ \E k \in U32Samples :
        /\ LessBytes(k, arith[1].prevtx_num_outputs)
        /\ Evaluated("prevtx_output", Some(k),
                prevtx_output_progress(arith[1].input_index, arith[1].num_inputs,
                    arith[1].prevtx_num_inputs, arith[1].prevtx_num_outputs, k))

\* The pass-2 progress is evaluated only under
\* `if let Some(ref mut c) = progress_component`, and the component exists
\* only if request.num_inputs > 2; pass 2 is reached only if handle_prevtx
\* returned.
ArithPass2 ==
    /\ arith # None /\ arith[1].site = "drawn"
    /\ LessBytes(U32(2), arith[1].num_inputs)
    /\ ~PanicsAtFirstPrevtxInput
    /\ Evaluated("pass2", None,
            pass2_progress(arith[1].input_index, arith[1].num_inputs))

ArithNext ==
    \/ ArithPass1
    \/ ArithLast
    \/ ArithPrevtxInput
    \/ ArithPrevtxOutput
    \/ ArithPass2

ArithSpec == ArithInit /\ [][ArithNext]_vars

\* ------------------------------------------------------- successive calls
\* process is called again once the previous call has returned: the new call
\* has its own request and its own locals.
EntryState(locked, init_request) ==
    [pc |-> "start", keystore_locked |-> locked, request |-> init_request,
     next_response |-> [next |-> DefaultNext, wrap |-> FALSE],
     input_index |-> 0, output_index |-> 0, prevtx_input_index |-> 0,
     prevtx_output_index |-> 0, tx_input |-> None, prevtx_init |-> None,
     hasher |-> <<>>, progress_component |-> None, empty_component |-> None,
     screen_stack |-> <<>>, result |-> Running, last_request |-> None,
     next_after_request |-> None, pass2_input |-> None, fault |-> "none",
     streamed |-> NoStream, pass1_value |-> <<>>, prevtx_verified |-> {},
     txid_matched |-> {}, prevtx_audit |-> None, exchanged |-> FALSE,
     screen_pushes |-> 0, native_calls |-> <<>>, signatures_delivered |-> <<>>,
     commitments_delivered |-> <<>>, call_screens |-> <<>>,
     value_audit |-> None, toasts |-> <<>>, trips |-> None,
     overflow_checks |-> overflow_checks, panic_strategy |-> panic_strategy]

NewCall ==
    /\ pc = "done"
    /\ \E locked \in BOOLEAN, init_request \in InitRequests :
            SetSession(EntryState(locked, init_request))
    /\ previous_result' = Some(result.status)
    /\ arith' = arith

SessionsNext ==
    \/ Next
    \/ NewCall

SessionsSpec == Init /\ [][SessionsNext]_vars

\* A session whose round trips are counted, with a host that answers every
\* hint and toasts that end.
CountInit ==
    /\ keystore_locked \in BOOLEAN
    /\ request \in InitRequests
    /\ Entry
    /\ trips = Some(0)
    /\ previous_result = None
    /\ overflow_checks = None
    /\ panic_strategy = None
    /\ arith = None

CountSpec == CountInit /\ [][Next]_vars /\ WF_vars(Next)

LiveSpec == Spec /\ WF_vars(Next)

\* ================================================================== claims
Calls(fn) == {k \in DOMAIN native_calls : native_calls[k].fn = fn}
Called(fn) == Calls(fn) # {}
Returned == pc = "done"
\* The firmware panicked on an overflowing u32 addition (C39).
Panicked == pc = "panicked"
Indices(n) == [i \in 1..n |-> i - 1]

\* Every output 0..num_outputs-1 was confirmed (sign_output returned Ok, with
\* last = TRUE exactly for the final one) before the k-th native call.
OutputsConfirmedBefore(k) ==
    \A j \in 0..(request.num_outputs - 1) :
        \E q \in 1..(k - 1) :
            native_calls[q] = [fn |-> "sign_output", index |-> j,
                               last |-> (j = request.num_outputs - 1),
                               result |-> "Ok"]

\* C1: a session in which the keystore is unlocked, the native helpers succeed,
\* the prevtx checks pass and the host answers every hint with the demanded
\* variant never gets stuck before process returns, and it returns Ok with a
\* response of type Done, its responses carrying exactly one signature per
\* input index, in index order.  (A session that panicked on the counts of a
\* PrevtxInit is not one whose prevtx checks pass.)
C1_ValidSessionSignsEveryInput ==
    /\ Panicked \/ Returned \/ ENABLED Next
    /\ (Returned /\ fault = "none") =>
            /\ result.status = "Ok"
            /\ result.response # None
            /\ result.response[1].next.type = NextType_Done
            /\ result.response[1].next.has_signature
            /\ signatures_delivered = Indices(request.num_inputs)

C1_Witness ==
    /\ Returned
    /\ fault = "none"
    /\ request.num_inputs >= 2
    /\ Called("sign_antiklepto")
    /\ result.status = "Ok"

\* C2: sign_input_pass2 is called, and a signature is put in a response, only
\* after sign_output returned Ok for every output index, the call for the
\* final index having last = TRUE.
C2_Pass2OnlyAfterOutputsConfirmed ==
    /\ \A k \in Calls("sign_input_pass2") : OutputsConfirmedBefore(k)
    /\ signatures_delivered # <<>> => OutputsConfirmedBefore(Len(native_calls) + 1)

C2_Witness ==
    /\ Called("sign_input_pass2")
    /\ signatures_delivered # <<>>
    /\ request.num_outputs >= 2
    /\ ~Returned

\* C3: when sign_input_pass2 is called, handle_prevtx has returned Ok for
\* every input index of the session, the id of the transaction streamed for
\* each being the input's prev_out_hash.
C3_PrevtxVerifiedBeforePass2 ==
    Called("sign_input_pass2") =>
        \A i \in 0..(request.num_inputs - 1) :
            i \in prevtx_verified /\ i \in txid_matched

C3_Witness ==
    /\ Calls("sign_input_pass2") # {}
    /\ request.num_inputs = 3
    /\ pc = "input_pass2"

\* C4: once the previous transaction of an input is streamed in full, an id
\* different from the input's prev_out_hash ends the session with InvalidInput
\* (no further hint is sent), and handle_prevtx returns Ok only if they are equal.
C4_TxidMismatchIsInvalidInput ==
    prevtx_audit # None =>
        /\ ~prevtx_audit[1].txid_matches =>
                Returned /\ result.status = "InvalidInput"
        /\ prevtx_audit[1].index \in prevtx_verified => prevtx_audit[1].txid_matches

C4_Witness ==
    /\ prevtx_audit # None
    /\ ~prevtx_audit[1].txid_matches
    /\ prevtx_audit[1].spent_output = "equal"
    /\ prevtx_audit[1].index = 1
    /\ result.status = "InvalidInput"

\* C5: whenever handle_prevtx returns Ok for an input, the output with index
\* prev_out_index was streamed and its value is the input's prev_out_value;
\* in every other case the session fails with InvalidInput.
C5_SpentOutputValueVerified ==
    prevtx_audit # None =>
        /\ prevtx_audit[1].index \in prevtx_verified =>
                prevtx_audit[1].spent_output = "equal"
        /\ prevtx_audit[1].spent_output # "equal" =>
                Returned /\ result.status = "InvalidInput"

\* C6: sign_reset is invoked exactly once per call of process, on every exit
\* path, and not before _process has returned.
C6_SignResetExactlyOnce ==
    Cardinality(Calls("sign_reset")) =
        IF pc \in {"done", "status_canceled"} THEN 1 ELSE 0

C6_Witness ==
    /\ Returned
    /\ fault = "transport"
    /\ result.status = "TransportError"
    /\ Called("sign_output")

\* C7: a request of another variant than the step demands makes process
\* return InvalidState, and a session that has returned performs no step (no
\* host exchange) any more.
C7_WrongVariantIsInvalidState ==
    [][/\ ~Returned
       /\ (fault = "none" /\ fault' = "variant") =>
                (Returned' /\ result'.status = "InvalidState")]_vars

C7_Witness ==
    /\ Returned
    /\ fault = "variant"
    /\ result.status = "InvalidState"
    /\ Called("sign_input_pass2")
    /\ ~Called("sign_antiklepto")

\* C8 as claimed: a session that ends with an error has sent no response
\* with has_signature = TRUE.
C8_NoSignatureInFailedSession ==
    (Returned /\ result.status # "Ok") => signatures_delivered = <<>>

\* C8, amended: a session that ends with an error has delivered no signature
\* unless it failed in pass 2 after an input was signed; then it has delivered,
\* one response each and in index order, signatures of inputs for which
\* sign_input_pass2 returned Ok, and fewer than num_inputs of them (the
\* signature of the last input leaves the device only with Done).
C8_FailedSessionDeliversOnlySignedPrefix ==
    (Returned /\ result.status # "Ok") =>
        LET k == Len(signatures_delivered)
            signed == {q \in Calls("sign_input_pass2") : native_calls[q].result = "Ok"}
        IN  /\ signatures_delivered = Indices(k)
            /\ k <= Cardinality(signed)
            /\ \A i \in 0..(k - 1) :
                    \E q \in signed : native_calls[q].index = i
            /\ (k > 0 => k < request.num_inputs)
            /\ (k > 0 => OutputsConfirmedBefore(Len(native_calls) + 1))

C8_Witness ==
    /\ Returned
    /\ result.status = "InvalidState"
    /\ signatures_delivered = <<0, 1>>

\* C9: when the user cancels a confirmation of the output phase (sign_output
\* returns UserAbort), process returns UserAbort, sign_input_pass2 is never
\* called and no response carries a signature.
C9_UserAbortSignsNothing ==
    fault = "user" =>
        /\ pc \in {"status_canceled", "done"}
        /\ result.status = "UserAbort"
        /\ ~Called("sign_input_pass2")
        /\ signatures_delivered = <<>>

C9_Witness ==
    /\ fault = "user"
    /\ Returned
    /\ Cardinality(Calls("sign_output")) = 2

\* C10: with the keystore locked, process returns InvalidState without
\* calling sign_init, without any host exchange and without pushing a UI
\* component, whatever the init request.
C10_LockedKeystoreRejected ==
    (keystore_locked /\ pc # "start") =>
        /\ Returned
        /\ result.status = "InvalidState"
        /\ ~Called("sign_init")
        /\ ~exchanged
        /\ screen_pushes = 0
        /\ screen_stack = <<>>

C10_Witness ==
    /\ keystore_locked
    /\ Returned
    /\ request.num_inputs = 0
    /\ request.version = 1

\* ------------------------------------------------------------------------
\* The states in which a hint is with the host, and the response that carries it.
Waiting ==
    {"input_pass1", "prevtx_init", "prevtx_input", "prevtx_output", "output",
     "input_pass2", "host_nonce"}
Hint == to_protobuf(next_response)
Succeeded == Returned /\ result.status = "Ok"
LastCall == native_calls[Len(native_calls)]
CallBeforeReset == native_calls[Len(native_calls) - 1]

\* C11: with the keystore unlocked, sign_init is the first native call; it
\* rejects a request with no input, no output, a version outside {1, 2} or a
\* locktime of 500000000 or more, and when it rejects a request (for these or
\* for its coin or script configs) process returns InvalidInput with no host
\* exchange and no UI component created.
C11_RejectedInitIsInvalidInput ==
    (~keystore_locked /\ pc # "start") =>
        /\ native_calls[1].fn = "sign_init"
        /\ ~sign_init_accepts(request) => native_calls[1].result = "InvalidInput"
        /\ native_calls[1].result # "Ok" =>
                /\ Returned
                /\ result = [status |-> "InvalidInput", response |-> None]
                /\ ~exchanged
                /\ screen_pushes = 0
                /\ screen_stack = <<>>
                /\ Len(native_calls) = 2

C11_Witness ==
    /\ ~keystore_locked
    /\ Returned
    /\ request.locktime = 500000000
    /\ request.version = 2
    /\ result.status = "InvalidInput"

\* C12: a PrevtxInit that declares no input or no output ends the session
\* with InvalidInput in the step that receives it: PrevtxInit is the last
\* request received, nothing of the transaction is streamed and no native
\* helper but sign_reset is called any more.
C12_EmptyPrevtxIsInvalidInput ==
    (/\ streamed.init # None
     /\ (streamed.init[1].num_inputs = U32(0) \/ streamed.init[1].num_outputs = U32(0))) =>
        /\ Returned
        /\ result = [status |-> "InvalidInput", response |-> None]
        /\ last_request = Some("PrevtxInit")
        /\ streamed.inputs = <<>>
        /\ streamed.outputs = <<>>
        /\ CallBeforeReset.fn = "sign_input_pass1"
        /\ CallBeforeReset.result = "Ok"

C12_Witness ==
    /\ Returned
    /\ streamed.init # None
    /\ streamed.init[1].num_inputs = U32(1)
    /\ streamed.init[1].num_outputs = U32(0)
    /\ Cardinality(Calls("sign_input_pass1")) = 2

\* C13: every response of a session, the hints and the final Done response,
\* is in the BtcResponse envelope exactly when the request received last was
\* PrevtxInit, PrevtxInput, PrevtxOutput or AntikleptoSignature, and is a bare
\* BtcSignNext after the init request, a SignInput or a SignOutput.
NestedVariants == {"PrevtxInit", "PrevtxInput", "PrevtxOutput", "AntikleptoSignature"}
EnvelopeFor(last) ==
    IF last # None /\ last[1] \in NestedVariants THEN "Btc.SignNext" ELSE "BtcSignNext"

C13_EnvelopeFollowsLastRequest ==
    /\ pc \in Waiting =>
            /\ Hint.envelope = EnvelopeFor(last_request)
            /\ last_request \in {None} \cup {Some(v) : v \in Variants \ {"BtcSignInit"}}
    /\ Succeeded =>
            /\ result.response[1].envelope = EnvelopeFor(last_request)
            /\ last_request \in {Some("BtcSignInput"), Some("AntikleptoSignature")}

C13_Witness ==
    /\ pc = "output"
    /\ output_index = 0
    /\ last_request = Some("PrevtxOutput")
    /\ Hint.envelope = "Btc.SignNext"
    /\ Hint.next.type = NextType_Output

\* C14: when get_request has returned a request, it has left next_response.next
\* at its defaults: type, index and prev_index 0, has_signature false, an
\* empty signature and no anti_klepto_signer_commitment.
C14_ResponseResetAfterRoundTrip ==
    /\ (next_after_request # None) <=> (last_request # None)
    /\ next_after_request # None =>
            /\ next_after_request[1].type = 0
            /\ next_after_request[1].index = 0
            /\ next_after_request[1].prev_index = 0
            /\ ~next_after_request[1].has_signature
            /\ next_after_request[1].signature = <<>>
            /\ next_after_request[1].anti_klepto_signer_commitment = None

C14_Witness ==
    /\ pc = "input_pass2"
    /\ input_index = 2
    /\ signatures_delivered = <<0, 1>>
    /\ next_after_request = Some(DefaultNext)
    /\ Called("sign_antiklepto")

\* C15: a hint has has_signature = TRUE exactly when it is the pass-2 Input
\* hint that follows the signing of the previous input, and then it carries
\* that input's signature, made by the helper that completed last
\* (sign_input_pass2, or sign_antiklepto for an armed input); every other
\* hint has an empty signature.  The Done response has has_signature = TRUE.
C15_SignatureFlagOnlyAfterSigning ==
    /\ pc \in Waiting =>
            /\ Hint.next.has_signature <=> (pc = "input_pass2" /\ input_index >= 1)
            /\ ~Hint.next.has_signature => Hint.next.signature = <<>>
            /\ Hint.next.has_signature =>
                    /\ Hint.next.signature # <<>>
                    /\ SignatureIndex(Hint.next) = input_index - 1
                    /\ LastCall.result = "Ok"
                    /\ LastCall.fn = Hint.next.signature[1].signer
    /\ Succeeded => result.response[1].next.has_signature

C15_Witness ==
    /\ pc = "input_pass2"
    /\ input_index = 1
    /\ Hint.next.has_signature
    /\ Hint.next.signature[1].signer = "sign_antiklepto"

\* C16: after the pass-2 Input(i) record is received and signed, the hint
\* HostNonce(i) is sent exactly when the record carries a
\* host_nonce_commitment; that hint carries the commitment sign_input_pass2
\* returned for the record, and no other hint nor the Done response carries an
\* anti_klepto_signer_commitment.
C16_HostNonceIffCommitment ==
    /\ pc \in Waiting =>
            /\ (Hint.next.anti_klepto_signer_commitment # None) <=> (pc = "host_nonce")
            /\ pc = "host_nonce" =>
                    /\ pass2_input # None
                    /\ Hint.next.type = NextType_HostNonce
                    /\ Hint.next.index = input_index
                    /\ Hint.next.anti_klepto_signer_commitment =
                            Some([commitment |->
                                    sign_input_pass2(input_index, pass2_input[1])
                                        .anti_klepto_signer_commitment])
                    /\ LastCall.fn = "sign_input_pass2"
                    /\ LastCall.index = input_index
    /\ (pass2_input # None /\ (pc \in Waiting \/ Succeeded)) =>
            ((pc = "host_nonce") <=> (pass2_input[1].host_nonce_commitment # None))
    /\ Succeeded => result.response[1].next.anti_klepto_signer_commitment = None

C16_Witness ==
    /\ pc = "host_nonce"
    /\ input_index = 1
    /\ signatures_delivered = <<0>>
    /\ Hint.next.anti_klepto_signer_commitment # None

\* C17: the response a successful session returns has type Done and
\* has_signature = TRUE and carries the signature of input num_inputs - 1,
\* which is delivered this once; the session takes no further step (no host
\* request is awaited).
C17_DoneCarriesLastSignature ==
    Succeeded =>
        LET next == result.response[1].next
        IN  /\ next.type = NextType_Done
            /\ next.has_signature
            /\ next.signature # <<>>
            /\ SignatureIndex(next) = request.num_inputs - 1
            /\ CallBeforeReset.fn = next.signature[1].signer
            /\ CallBeforeReset.index = request.num_inputs - 1
            /\ Len(signatures_delivered) = request.num_inputs
            /\ signatures_delivered[request.num_inputs] = request.num_inputs - 1
            /\ ~ENABLED Next

C17_Witness ==
    /\ Succeeded
    /\ request.num_inputs = 3
    /\ result.response[1].next.signature[1].signer = "sign_input_pass2"
    /\ result.response[1].envelope = "BtcSignNext"

\* The error process returns for the first misbehaviour of the session.
ErrorOf(f, failed_call) ==
    CASE f = "locked" -> "InvalidState"
      [] f = "transport" -> "TransportError"
      [] f = "variant" -> "InvalidState"
      [] f = "prevtx" -> "InvalidInput"
      [] f = "user" -> "UserAbort"
      [] f = "native" -> failed_call.result

\* C18: the step in which the first error occurs (transport error, variant
\* mismatch, native helper failure, prevtx check failure) ends _process with
\* that error, unchanged, as the result of process; after it the only native
\* call is sign_reset and no response is handed to the host any more.
C18_FirstErrorIsReturned ==
    [][/\ (fault = "none" /\ fault' # "none") =>
                /\ pc' \in {"done", "status_canceled"}
                /\ result' = [status |-> ErrorOf(fault', CallBeforeReset'),
                              response |-> None]
                /\ LastCall'.fn = "sign_reset"
                /\ Len(native_calls') <= Len(native_calls) + 2
                /\ (fault' \in {"native", "user"}) =
                        (Len(native_calls') = Len(native_calls) + 2)
                /\ signatures_delivered' = signatures_delivered
       /\ fault # "none" =>
                /\ pc = "status_canceled"
                /\ pc' = "done"
                /\ result' = result
                /\ native_calls' = native_calls
                /\ signatures_delivered' = signatures_delivered
                /\ next_response' = next_response
                /\ last_request' = last_request]_vars

C18_Witness ==
    /\ Returned
    /\ fault = "native"
    /\ CallBeforeReset.fn = "sign_antiklepto"
    /\ result.status = "InvalidInput"
    /\ signatures_delivered = <<0>>

\* C19: every component pushed onto the screen stack is on it exactly while
\* the session holds its handle, and when _process has returned, with success,
\* an error or a user abort, none is left: pushes and drops are balanced.
C19_ScreenStackBalanced ==
    /\ Len(screen_stack) =
            (IF progress_component = None THEN 0 ELSE 1)
            + (IF empty_component = None THEN 0 ELSE 1)
    /\ pc \in {"done", "status_canceled"} =>
            /\ screen_stack = <<>>
            /\ progress_component = None
            /\ empty_component = None

C19_Witness ==
    /\ Returned
    /\ screen_pushes = 3
    /\ result.status = "TransportError"
    /\ screen_stack = <<>>

\* C20 as claimed: the prev_out_value of the Input record that was signed in
\* pass 2 is the one given to sign_input_pass1 for that input index.
C20_Pass2ValueEqualsPass1Value ==
    (pc = "input_pass2" /\ pass2_input # None /\ Hint.next.has_signature) =>
        pass2_input[1].prev_out_value = pass1_value[input_index]

\* C20, amended: the record signed in pass 2 for input i is the Input(i)
\* record the host sent in pass 2, whatever was given to sign_input_pass1 for
\* that index: the signature returned is the one sign_input_pass2 made for
\* that record, and an armed input keeps it in scope for the host nonce.
C20_Pass2SignsTheRecordReceived ==
    pass2_input # None =>
        /\ pc = "input_pass2" =>
                /\ Len(pass1_value) = request.num_inputs
                /\ Hint.next.signature =
                        <<sign_input_pass2(input_index - 1, pass2_input[1]).signature>>
        /\ pc = "host_nonce" => tx_input = pass2_input
        /\ Succeeded =>
                result.response[1].next.signature =
                    <<sign_input_pass2(request.num_inputs - 1, pass2_input[1]).signature>>

C20_Witness ==
    /\ pc = "input_pass2"
    /\ pass2_input # None
    /\ Hint.next.has_signature
    /\ Len(pass1_value) = request.num_inputs
    /\ pass2_input[1].prev_out_value # pass1_value[input_index]

\* The fields of the previous transaction received so far, in the order and
\* encoding of the transaction serialization, locktime excluded.
FedSoFar(st) ==
    LET init == st.init[1]
    IN  to_le_bytes(init.version, 4)
        \o serialize_varint(U64(init.num_inputs))
        \o SerializeInputs(st.inputs)
        \o (IF U32(Len(st.inputs)) = init.num_inputs
            THEN serialize_varint(U64(init.num_outputs)) \o SerializeOutputs(st.outputs)
            ELSE <<>>)

\* C21: while a previous transaction is streamed the hasher holds version
\* (LE32), varint(num_inputs), per input received prev_out_hash, prev_out_index
\* (LE32), varint(len(signature_script)), signature_script, sequence (LE32),
\* then varint(num_outputs) and per output received value (LE64),
\* varint(len(pubkey_script)), pubkey_script; once it is streamed in full,
\* handle_prevtx returns Ok exactly when SHA256(SHA256(that sequence followed
\* by locktime (LE32))) is the input's prev_out_hash, unless the value check
\* of the final output failed first.
C21_HasherFedWithSerialization ==
    /\ pc \in {"prevtx_input", "prevtx_output"} =>
            /\ streamed.init = prevtx_init
            /\ hasher = FedSoFar(streamed)
            /\ Len(streamed.inputs) = prevtx_input_index
            /\ Len(streamed.outputs) = prevtx_output_index
    /\ (prevtx_audit # None /\ prevtx_audit[1].spent_output # "differs") =>
            (prevtx_audit[1].index \in prevtx_verified <=> prevtx_audit[1].txid_matches)

C21_Witness ==
    /\ pc = "prevtx_output"
    /\ Len(streamed.inputs) = 2
    /\ Len(streamed.outputs) = 1
    /\ hasher = FedSoFar(streamed)
    /\ Len(hasher) > 20

\* The hint of a response: (type, index, prev_index).
HintOf(next) == <<next.type, next.index, next.prev_index>>

\* The step from a state suspended at `at` with hint h (of a previous
\* transaction `tx` being streamed) to a state suspended at `to` with hint g
\* follows the signing flow; `armed` tells whether the pass-2 record just
\* received carries a host nonce commitment, `ok` whether process returned
\* Ok with a Done response.
FlowStep(at, h, tx, to, g, armed, ok) ==
    LET i == h[2]
        j == h[3]
        n == request.num_inputs
        m == request.num_outputs
        pass2_advance ==
            IF i + 1 < n
            THEN to = "input_pass2" /\ g = <<NextType_Input, i + 1, 0>>
            ELSE to = "done" /\ ok
    IN  CASE at = "start" -> to = "input_pass1" /\ g = <<NextType_Input, 0, 0>>
          [] at = "input_pass1" ->
                to = "prevtx_init" /\ g = <<NextType_PrevtxInit, i, 0>>
          [] at = "prevtx_init" ->
                to = "prevtx_input" /\ g = <<NextType_PrevtxInput, i, 0>>
          [] at = "prevtx_input" ->
                IF LessBytes(U32(j + 1), tx.init[1].num_inputs)
                THEN to = "prevtx_input" /\ g = <<NextType_PrevtxInput, i, j + 1>>
                ELSE to = "prevtx_output" /\ g = <<NextType_PrevtxOutput, i, 0>>
          [] at = "prevtx_output" ->
                IF LessBytes(U32(j + 1), tx.init[1].num_outputs)
                THEN to = "prevtx_output" /\ g = <<NextType_PrevtxOutput, i, j + 1>>
                ELSE IF i + 1 < n
                THEN to = "input_pass1" /\ g = <<NextType_Input, i + 1, 0>>
                ELSE to = "output" /\ g = <<NextType_Output, 0, 0>>
          [] at = "output" ->
                IF i + 1 < m
                THEN to = "output" /\ g = <<NextType_Output, i + 1, 0>>
                ELSE to = "status_confirmed"
          [] at = "status_confirmed" ->
                to = "input_pass2" /\ g = <<NextType_Input, 0, 0>>
          [] at = "input_pass2" ->
                IF armed
                THEN to = "host_nonce" /\ g = <<NextType_HostNonce, i, 0>>
                ELSE pass2_advance
          [] at = "host_nonce" -> pass2_advance
          [] OTHER -> FALSE

\* C22: as long as nothing has failed, each step sends the hint that follows
\* the one answered in the sequence Input(i), PrevtxInit(i), PrevtxInput(i, 0..),
\* PrevtxOutput(i, 0..) for each input (the counts being those declared in
\* PrevtxInit(i)), Output(0..), then Input(i) and HostNonce(i) when armed for
\* each input, and after the last one process returns Done; the step in which
\* something fails sends no hint and the session returns without a response.
\* A step that panics on the counts of a PrevtxInit leaves the session with
\* no hint awaited and nothing returned.
C22_HintsFollowTheSigningFlow ==
    [][IF Panicked'
       THEN result' = Running
       ELSE IF fault' = "none"
       THEN FlowStep(pc, HintOf(Hint.next), streamed, pc',
                     IF pc' = "status_confirmed" THEN <<>> ELSE HintOf(Hint'.next),
                     pass2_input' # None /\ pass2_input'[1].host_nonce_commitment # None,
                     Succeeded' /\ result'.response[1].next.type = NextType_Done)
       ELSE /\ pc' \in {"done", "status_canceled"}
            /\ result'.response = None
            /\ result'.status # "Ok"]_vars

C22_Witness ==
    /\ Succeeded
    /\ request.num_inputs = 3
    /\ request.num_outputs = 2
    /\ commitments_delivered = <<0, 2>>

StrictlyIncreasing(seq) ==
    \A a, b \in DOMAIN seq : a < b => seq[a] < seq[b]

\* C23: no signature and no anti-klepto signer commitment is put in two
\* responses: the signatures delivered are those of inputs 0, 1, ... once
\* each, the signature of input i being delivered by the time the hint of
\* pass-2 input i + 1 is with the host (or with Done) and not before, and the
\* commitment of input i only with the hint HostNonce(i).
C23_StagedDataDeliveredOnce ==
    /\ signatures_delivered = Indices(Len(signatures_delivered))
    /\ StrictlyIncreasing(commitments_delivered)
    /\ pc \in Waiting =>
            /\ Len(signatures_delivered) =
                    IF pc \in {"input_pass2", "host_nonce"} THEN input_index ELSE 0
            /\ \A k \in DOMAIN commitments_delivered :
                    /\ commitments_delivered[k] <= input_index
                    /\ commitments_delivered[k] = input_index => pc = "host_nonce"
            /\ pc = "host_nonce" =>
                    /\ commitments_delivered # <<>>
                    /\ commitments_delivered[Len(commitments_delivered)] = input_index
            /\ pc \notin {"input_pass2", "host_nonce"} => commitments_delivered = <<>>
    /\ Succeeded => Len(signatures_delivered) = request.num_inputs

C23_Witness ==
    /\ pc = "input_pass2"
    /\ input_index = 2
    /\ signatures_delivered = <<0, 1>>
    /\ commitments_delivered = <<0, 1>>

Range(seq) == {seq[k] : k \in DOMAIN seq}

\* The signature in a response was made by sign_antiklepto on a host nonce
\* request if the input's HostNonce hint was sent, and by sign_input_pass2 on
\* a record without host nonce commitment otherwise.
SignerMatches(next) ==
    next.signature # <<>> =>
        LET sig == next.signature[1]
        IN  IF sig.index \in Range(commitments_delivered)
            THEN sig.signer = "sign_antiklepto" /\ sig.msg \in AntikleptoMsgs
            ELSE /\ sig.signer = "sign_input_pass2"
                 /\ sig.msg.host_nonce_commitment = None

\* C24: the signature delivered for an armed input is the one sign_antiklepto
\* returned for the host nonce request; the one sign_input_pass2 returned for
\* it is in no response: not in the HostNonce hint, not in a later hint or
\* Done, and a session failing after the HostNonce hint returns no response.
C24_AntikleptoSignatureReplacesFirst ==
    /\ pc \in Waiting => SignerMatches(Hint.next)
    /\ pc = "host_nonce" =>
            /\ Hint.next.signature = <<>>
            /\ ~Hint.next.has_signature
    /\ Succeeded => SignerMatches(result.response[1].next)
    /\ (Returned /\ ~Succeeded) => result.response = None
    /\ \A k \in DOMAIN commitments_delivered :
            commitments_delivered[k] \in Range(signatures_delivered) =>
                \E q \in Calls("sign_antiklepto") :
                    /\ native_calls[q].index = commitments_delivered[k]
                    /\ native_calls[q].result = "Ok"

C24_Witness ==
    /\ Returned
    /\ fault = "variant"
    /\ commitments_delivered = <<0>>
    /\ signatures_delivered = <<>>
    /\ CallBeforeReset.fn = "sign_input_pass2"
    /\ request.num_inputs = 2

\* C25: when the previous-transaction output received at index
\* prev_out_index has another value than the input's prev_out_value, the
\* session ends in that step with InvalidInput: PrevtxOutput is the last
\* request received, handle_prevtx does not return Ok for the input, the last
\* native call before sign_reset is the input's sign_input_pass1 and
\* sign_output was never called.
C25_ValueMismatchIsInvalidInput ==
    (value_audit # None /\ ~value_audit[1].equal) =>
        /\ Returned
        /\ result = [status |-> "InvalidInput", response |-> None]
        /\ last_request = Some("PrevtxOutput")
        /\ value_audit[1].index \notin prevtx_verified
        /\ CallBeforeReset.fn = "sign_input_pass1"
        /\ CallBeforeReset.index = value_audit[1].index
        /\ CallBeforeReset.result = "Ok"
        /\ ~Called("sign_output")

C25_Witness ==
    /\ Returned
    /\ value_audit = Some([index |-> 1, equal |-> FALSE, last |-> FALSE])
    /\ result.status = "InvalidInput"

PrevtxHints == {NextType_PrevtxInit, NextType_PrevtxInput, NextType_PrevtxOutput}

\* C26: a pass-2 Input record is accepted whatever its prev_out_value and
\* prev_out_hash: when the host sent the demanded variant and sign_input_pass2
\* accepted it, the session goes on (with the HostNonce hint, the next Input
\* hint carrying the signature, or Done carrying it), and once the outputs
\* are being processed no previous transaction is requested any more.
C26_Pass2RecordNotCompared ==
    /\ (pass2_input # None /\ fault = "none") =>
            /\ pc \in {"input_pass2", "host_nonce", "done"}
            /\ pc = "done" => Succeeded
            /\ LastCall.fn = IF pc = "done" THEN "sign_reset" ELSE "sign_input_pass2"
            /\ pass2_input[1].host_nonce_commitment = None =>
                    /\ pc = "input_pass2" => Hint.next.has_signature
                    /\ signatures_delivered # <<>>
                    /\ signatures_delivered[Len(signatures_delivered)] =
                            (IF pc = "done" THEN request.num_inputs ELSE input_index) - 1
    /\ Called("sign_output") =>
            /\ pc \notin {"input_pass1", "prevtx_init", "prevtx_input", "prevtx_output"}
            /\ pc \in Waiting => Hint.next.type \notin PrevtxHints
            /\ streamed = NoStream

C26_Witness ==
    /\ Succeeded
    /\ pass2_input # None
    /\ pass2_input[1].prev_out_hash = BogusHash
    /\ pass2_input[1].host_nonce_commitment = None
    /\ signatures_delivered = <<0, 1>>

CallsOf(fn) == SelectSeq(native_calls, LAMBDA call : call.fn = fn)

\* The calls of fn so far are for the indices 0, 1, ... in this order, at
\* most n of them, each but the latest having returned Ok, with last = TRUE
\* exactly for index n - 1.
CalledInOrder(fn, n) ==
    LET calls == CallsOf(fn)
    IN  /\ Len(calls) <= n
        /\ \A k \in DOMAIN calls :
                /\ calls[k].index = k - 1
                /\ calls[k].last = (k = n)
                /\ k < Len(calls) => calls[k].result = "Ok"

\* C27: sign_input_pass1, sign_output and sign_input_pass2 are each called
\* once per index in increasing order, with last = TRUE exactly on the final
\* index; a successful session has called them for every index; and while the
\* previous transaction of input i is requested, sign_input_pass1 of i is the
\* latest native call.
C27_NativeHelpersCalledInOrder ==
    /\ CalledInOrder("sign_input_pass1", request.num_inputs)
    /\ CalledInOrder("sign_output", request.num_outputs)
    /\ CalledInOrder("sign_input_pass2", request.num_inputs)
    /\ pc \in {"prevtx_init", "prevtx_input", "prevtx_output"} =>
            LastCall = [fn |-> "sign_input_pass1", index |-> Hint.next.index,
                        last |-> (Hint.next.index = request.num_inputs - 1),
                        result |-> "Ok"]
    /\ Succeeded =>
            /\ Len(CallsOf("sign_input_pass1")) = request.num_inputs
            /\ Len(CallsOf("sign_output")) = request.num_outputs
            /\ Len(CallsOf("sign_input_pass2")) = request.num_inputs

C27_Witness ==
    /\ Succeeded
    /\ request.num_inputs = 3
    /\ request.num_outputs = 2
    /\ Len(native_calls) = 10

CanceledToast == [text |-> "Transaction\ncanceled", success |-> FALSE]
ConfirmedToast == [text |-> "Transaction\nconfirmed", success |-> TRUE]
Shown(toast) == Cardinality({k \in DOMAIN toasts : toasts[k] = toast})

\* C28: the "Transaction canceled" toast is shown once when _process
\* returned UserAbort, after sign_reset, and is never shown when the session
\* is running or returned anything else.
C28_CanceledToastIffUserAbort ==
    /\ Shown(CanceledToast) = IF result.status = "UserAbort" THEN 1 ELSE 0
    /\ pc = "status_canceled" =>
            /\ result.status = "UserAbort"
            /\ toasts[Len(toasts)] = CanceledToast
            /\ LastCall.fn = "sign_reset"
    /\ (Returned /\ result.status # "UserAbort") => CanceledToast \notin Range(toasts)

C28_Witness ==
    /\ Returned
    /\ result.status = "UserAbort"
    /\ request.num_outputs = 2
    /\ Len(CallsOf("sign_output")) = 1
    /\ toasts = <<CanceledToast>>

\* C29: the "Transaction confirmed" toast is shown at most once, and it has
\* been shown exactly when sign_output has returned Ok for every output
\* index: it is on while no sign_input_pass2 call and no pass-2 hint has been
\* made, every pass-2 state has seen it, and a session with a cancelled
\* confirmation never shows it.
C29_ConfirmedToastIffOutputsConfirmed ==
    /\ Shown(ConfirmedToast) <= 1
    /\ (Shown(ConfirmedToast) = 1) <=>
            (Called("sign_output") /\ OutputsConfirmedBefore(Len(native_calls) + 1))
    /\ pc = "status_confirmed" =>
            /\ toasts = <<ConfirmedToast>>
            /\ LastCall.fn = "sign_output"
            /\ ~Called("sign_input_pass2")
            /\ Hint.next = DefaultNext
    /\ (pc \in {"input_pass2", "host_nonce"} \/ Called("sign_input_pass2")) =>
            toasts[1] = ConfirmedToast
    /\ fault = "user" => ConfirmedToast \notin Range(toasts)

C29_Witness ==
    /\ pc = "status_confirmed"
    /\ toasts = <<ConfirmedToast>>
    /\ request.num_outputs = 2
    /\ request.num_inputs = 2

\* C30: the loading progress bar is the screen pushed during pass 1 and while
\* the hint Output(0) is with the host; from the first sign_output call on,
\* through the output phase, the placeholder is there instead: every
\* sign_input_pass1 call is made over the progress bar and every sign_output
\* call over the placeholder.
C30_PlaceholderDuringOutputs ==
    /\ (\/ pc \in {"input_pass1", "prevtx_init", "prevtx_input", "prevtx_output"}
        \/ pc = "output" /\ Hint.next.index = 0) =>
            /\ screen_stack = <<"Loading transaction...">>
            /\ progress_component # None
            /\ progress_component[1].title = "Loading transaction..."
            /\ empty_component = None
    /\ ((pc = "output" /\ Hint.next.index >= 1) \/ pc = "status_confirmed") =>
            /\ screen_stack = <<"empty">>
            /\ empty_component # None
            /\ progress_component = None
    /\ \A k \in Calls("sign_input_pass1") : call_screens[k] = <<"Loading transaction...">>
    /\ \A k \in Calls("sign_output") : call_screens[k] = <<"empty">>

C30_Witness ==
    /\ pc = "output"
    /\ output_index = 1
    /\ screen_stack = <<"empty">>
    /\ call_screens[Len(call_screens)] = <<"empty">>
    /\ LastCall.fn = "sign_output"

\* The gap between the receipt of the last output request and the receipt of
\* the first pass-2 input request: the "Transaction confirmed" toast, then the
\* round trip of the hint Input(0) of pass 2.
AfterLastOutput ==
    \/ pc = "status_confirmed"
    \/ pc = "input_pass2" /\ input_index = 0

\* C31 as stated: the placeholder is on the screen stack during the whole gap
\* between receiving the last output request and receiving the first pass-2
\* input request.
C31_PlaceholderUntilFirstPass2Input ==
    AfterLastOutput =>
        /\ empty_component # None
        /\ \E k \in 1..Len(screen_stack) : screen_stack[k] = "empty"

\* C31 (amended): the placeholder is on the screen stack from the last output
\* request until the "Transaction confirmed" toast has been displayed; it is
\* dropped before the hint Input(0) of pass 2 is sent, so while the first
\* pass-2 input request is awaited the stack holds only the signing progress
\* bar (more than 2 inputs) or nothing, and no sign_input_pass2 call is made
\* over the placeholder.
C31_PlaceholderDroppedAfterToast ==
    /\ pc = "status_confirmed" =>
            /\ empty_component # None
            /\ screen_stack = <<"empty">>
    /\ pc = "input_pass2" =>
            /\ empty_component = None
            /\ screen_stack = IF request.num_inputs > 2
                              THEN <<"Signing transaction...">>
                              ELSE <<>>
    /\ \A k \in Calls("sign_input_pass2") :
            \A j \in 1..Len(call_screens[k]) : call_screens[k][j] # "empty"

C31_Witness ==
    /\ pc = "input_pass2"
    /\ input_index = 0
    /\ toasts = <<ConfirmedToast>>
    /\ request.num_inputs = 2
    /\ screen_stack = <<>>
    /\ LastCall.fn = "sign_output"

\* Pass 2 is running: a pass-2 input request or a host nonce is awaited.
InPass2 == pc \in {"input_pass2", "host_nonce"}

\* C32: in pass 2 the "Signing transaction..." progress bar exists, pushed on
\* the screen stack, if and only if num_inputs > 2; with at most 2 inputs
\* there is no progress component in pass 2 and nothing to set; when present
\* it shows nothing before the first signature and (i+1)/num_inputs once
\* input i is signed.
C32_SigningProgressIffMoreThanTwoInputs ==
    InPass2 =>
        /\ progress_component # None <=> request.num_inputs > 2
        /\ request.num_inputs <= 2 =>
                /\ progress_component = None
                /\ screen_stack = <<>>
        /\ request.num_inputs > 2 =>
                /\ screen_stack = <<"Signing transaction...">>
                /\ progress_component[1].title = "Signing transaction..."
                /\ progress_component[1].progress =
                        IF input_index = 0 THEN None
                        ELSE Some(Fraction(U32(0), U32((input_index - 1) + 1),
                                           U32(request.num_inputs), U32(1)))

C32_Witness ==
    /\ pc = "input_pass2"
    /\ request.num_inputs = 3
    /\ input_index = 2
    /\ progress_component =
            Some([title |-> "Signing transaction...",
                  progress |-> Some(Fraction(U32(0), U32(2), U32(3), U32(1)))])
    /\ signatures_delivered = <<0, 1>>

\* ----------------------------------------------------- progress arithmetic
\* a * d + carry for a byte d; the last byte of the result is the carry out.
RECURSIVE ScaleBytes(_, _, _)
ScaleBytes(a, d, carry) ==
    IF a = <<>> THEN <<carry>>
    ELSE LET p == a[1] * d + carry
         IN  <<p % 256>> \o ScaleBytes(Tail(a), d, p \div 256)

\* The exact product a * b, Len(a) + Len(b) bytes long.
RECURSIVE MulBytes(_, _)
MulBytes(a, b) ==
    IF b = <<>> THEN [i \in 1..Len(a) |-> 0]
    ELSE LET n == Len(a) + Len(b)
             low == ScaleBytes(a, b[1], 0) \o [i \in 1..(Len(b) - 1) |-> 0]
             high == <<0>> \o MulBytes(a, Tail(b))
         IN  SubSeq(AddBytes(low, high, 0), 1, n)

\* 0 <= (whole + num/den) / steps <= 1 in exact arithmetic: the denominators
\* are not zero and num <= (steps - whole) * den.
InUnitInterval(v) ==
    LET room == overflowing_sub(v.steps, v.whole)
    IN  /\ v.den # U32(0)
        /\ v.steps # U32(0)
        /\ ~room.overflow
        /\ ~LessBytes(MulBytes(room.value, v.den), v.num \o U32(0))

\* C33 as stated: every value passed to progress_set lies in [0, 1] and has
\* non-zero denominators, and the pass-1 value is (i + sub)/num_inputs with
\* sub = k/(pin + pout) before previous input k and (pin + k)/(pin + pout)
\* before previous output k, the sums being the exact ones.
C33_ProgressInUnitInterval ==
    (arith # None /\ arith[1].value # None) =>
        LET a == arith[1]
            v == a.value[1]
            total == AddBytes(a.prevtx_num_inputs, a.prevtx_num_outputs, 0)
        IN  /\ InUnitInterval(v)
            /\ a.site = "pass1" =>
                    v = Fraction(U32(0), a.input_index, a.num_inputs, U32(1))
            /\ a.site = "prevtx_input" =>
                    /\ v.whole = a.input_index /\ v.steps = a.num_inputs
                    /\ v.num = a.prevtx_index[1]
                    /\ v.den \o <<0>> = total
            /\ a.site = "prevtx_output" =>
                    /\ v.whole = a.input_index /\ v.steps = a.num_inputs
                    /\ v.num \o <<0>> =
                            AddBytes(a.prevtx_num_inputs, a.prevtx_index[1], 0)
                    /\ v.den \o <<0>> = total

\* C39 as stated: no u32 operation of the orchestrator overflows or
\* underflows, whatever the init request and the counts of a PrevtxInit.
C39_NoU32Overflow ==
    arith # None => ~arith[1].overflow /\ ~arith[1].panic

\* The records still to come of `count`, `index` of them being streamed.
Left(count, index) == overflowing_sub(count, U32(index)).value

\* The steps a session still has to take, as a triple ordered lexicographically:
\* the awaits left outside the streaming of a previous transaction (for every
\* input of pass 1 the Input and PrevtxInit round trips, the Output round
\* trips, the confirmation toast, for every input of pass 2 the Input and
\* HostNonce round trips, the cancel toast), then the inputs and the outputs
\* (u32) of the previous transaction being streamed that are still to come.
Measure ==
    LET n == request.num_inputs
        m == request.num_outputs
        pass2 == 2 * n + 1
        outputs == m + 1 + pass2
        pass1 == 2 * (n - input_index) + outputs
        none == U32(0)
    IN  CASE pc = "start" -> <<1 + 2 * n + outputs, none, none>>
          [] pc = "input_pass1" -> <<pass1, none, none>>
          [] pc = "prevtx_init" -> <<pass1 - 1, none, none>>
          [] pc = "prevtx_input" ->
                <<pass1 - 2, Left(prevtx_init[1].num_inputs, prevtx_input_index),
                  prevtx_init[1].num_outputs>>
          [] pc = "prevtx_output" ->
                <<pass1 - 2, none,
                  Left(prevtx_init[1].num_outputs, prevtx_output_index)>>
          [] pc = "output" -> <<(m - output_index) + 1 + pass2, none, none>>
          [] pc = "status_confirmed" -> <<1 + pass2, none, none>>
          [] pc = "input_pass2" -> <<2 * (n - input_index) + 1, none, none>>
          [] pc = "host_nonce" -> <<2 * (n - input_index), none, none>>
          [] pc = "status_canceled" -> <<1, none, none>>
          [] OTHER -> <<0, none, none>>

\* a comes before b in the (well-founded) lexicographic order of triples of
\* a natural and two u32.
LexLess(a, b) ==
    /\ a[1] >= 0
    /\ \/ a[1] < b[1]
       \/ a[1] = b[1] /\ LessBytes(a[2], b[2])
       \/ a[1] = b[1] /\ a[2] = b[2] /\ LessBytes(a[3], b[3])

\* C34 as stated: process returns whatever the host answers, as long as it
\* answers:
\* every step of a session strictly decreases a well-founded measure and a
\* session that has not returned can take a step; and a session that
\* succeeded took exactly 2*num_inputs + num_outputs + the sum over the inputs
\* of (1 + pin + pout) + (pass-2 inputs with a host nonce commitment) round
\* trips, that is 2*num_inputs + num_outputs more than the PrevtxInit
\* messages and the host nonce commitments account for.
C34_ReturnsAfterCountedRoundTrips ==
    /\ [][LexLess(Measure', Measure)]_vars
    /\ [](Returned \/ ENABLED Next)
    /\ [](Succeeded => trips[1] = 2 * request.num_inputs + request.num_outputs)

\* The host answered the PrevtxInit hint of the second input with counts whose
\* sum is 2^32, on a build with overflow checks that unwinds: the firmware
\* panicked before the next hint, the progress screen was popped and process
\* has not returned.
C34_Witness ==
    /\ Panicked
    /\ ~ENABLED Next
    /\ result = Running
    /\ overflow_checks = Some(TRUE)
    /\ panic_strategy = Some("unwind")
    /\ screen_stack = <<>>
    /\ ~Called("sign_reset")
    /\ Cardinality(Calls("sign_input_pass1")) = 2
    /\ last_request = Some("PrevtxInit")

\* C35: every session invokes sign_reset when _process has returned: the step
\* that invokes it leaves it as the last native call, made with no component
\* of the session on the screen stack; no later step exchanges anything with
\* the host, calls a native helper or pushes a component; and while the
\* "Transaction canceled" toast of a UserAbort is displayed, sign_reset has
\* already been invoked.
C35_SignResetComesLast ==
    /\ [](pc \in {"done", "status_canceled"} => Called("sign_reset"))
    /\ [](pc = "status_canceled" =>
            /\ result.status = "UserAbort"
            /\ Called("sign_reset")
            /\ toasts[Len(toasts)] = CanceledToast)
    /\ [][/\ (~Called("sign_reset") /\ Called("sign_reset")') =>
                /\ native_calls'[Len(native_calls')].fn = "sign_reset"
                /\ Cardinality(Calls("sign_reset")') = 1
                /\ call_screens'[Len(call_screens')] = <<>>
                /\ screen_stack' = <<>>
                /\ progress_component' = None /\ empty_component' = None
                /\ pc' = IF result'.status = "UserAbort"
                         THEN "status_canceled" ELSE "done"
          /\ Called("sign_reset") =>
                /\ pc = "status_canceled" /\ pc' = "done"
                /\ UNCHANGED <<native_calls, call_screens, next_response,
                               last_request, next_after_request, exchanged,
                               signatures_delivered, commitments_delivered,
                               screen_stack, screen_pushes, result, toasts>>]_vars

C35_Witness ==
    /\ Returned
    /\ result.status = "UserAbort"
    /\ exchanged
    /\ screen_pushes = 2
    /\ LastCall.fn = "sign_reset"
    /\ CallBeforeReset = [fn |-> "sign_output", index |-> 1, last |-> TRUE,
                          result |-> "UserAbort"]

\* The UI components the orchestrator owns, by the title of their screen.
OwnedScreens == {"Loading transaction...", "empty", "Signing transaction..."}

\* C36: at most one UI component owned by the orchestrator (loading progress
\* bar, placeholder, signing progress bar) is on the screen stack, in every
\* state and at every native call; the session holds at most one handle.
C36_AtMostOneComponentOnStack ==
    /\ Cardinality({k \in DOMAIN screen_stack : screen_stack[k] \in OwnedScreens}) <= 1
    /\ ~(progress_component # None /\ empty_component # None)
    /\ \A c \in DOMAIN call_screens :
            Cardinality({k \in DOMAIN call_screens[c] :
                            call_screens[c][k] \in OwnedScreens}) <= 1

C36_Witness ==
    /\ pc = "input_pass2"
    /\ screen_stack = <<"Signing transaction...">>
    /\ screen_pushes = 3
    /\ input_index = 1

\* C38: a hint of type Input, Output, PrevtxInit or HostNonce has
\* prev_index = 0, also right after a PrevtxInput or PrevtxOutput hint with
\* another prev_index, and the Done response has index = 0 and prev_index = 0.
C38_PrevIndexOnlyInPrevtxRecordHints ==
    /\ (/\ pc \in Waiting
        /\ Hint.next.type \in {NextType_Input, NextType_Output,
                               NextType_PrevtxInit, NextType_HostNonce}) =>
            Hint.next.prev_index = 0
    /\ Succeeded =>
            /\ result.response[1].next.type = NextType_Done
            /\ result.response[1].next.index = 0
            /\ result.response[1].next.prev_index = 0

\* The hint Output(0) that follows the hint PrevtxOutput with prev_index = 1
\* (the input spends output 1, worth 2000, of the two-output transaction).
C38_Witness ==
    /\ pc = "output"
    /\ output_index = 0
    /\ request.num_inputs = 2
    /\ prevtx_audit = Some([index |-> 1, txid_matches |-> TRUE,
                            spent_output |-> "equal"])
    /\ pass1_value[2] = 2000
    /\ Hint.next.type = NextType_Output
    /\ Hint.next.prev_index = 0

\* C37: whatever a previous call of process returned, a new call starts from
\* the state of a first call, with next_response at its defaults and
\* wrap = FALSE, and its first response is the bare hint Input(0) with
\* has_signature = FALSE, an empty signature and no signer commitment.
C37_NewCallStartsFresh ==
    /\ pc = "start" =>
            /\ Entry
            /\ next_response = [next |-> DefaultNext, wrap |-> FALSE]
    /\ (pc = "input_pass1" /\ last_request = None) =>
            /\ ~next_response.wrap
            /\ Hint.envelope = "BtcSignNext"
            /\ Hint.next = [type |-> NextType_Input, index |-> 0,
                            has_signature |-> FALSE, signature |-> <<>>,
                            prev_index |-> 0,
                            anti_klepto_signer_commitment |-> None]
            /\ signatures_delivered = <<>>
            /\ commitments_delivered = <<>>

C37_Witness ==
    /\ pc = "input_pass1"
    /\ last_request = None
    /\ previous_result = Some("UserAbort")
    /\ Hint.next.type = NextType_Input
    /\ native_calls = <<[fn |-> "sign_init", index |-> 0, last |-> FALSE,
                         result |-> "Ok"]>>
====
